---- MODULE Spec2Model ----
(***************************************************************************)
(* Irrigation System Planner (src/src/App.tsx): the zone geometry and      *)
(* area-resolution engine of the React component App.                      *)
(*                                                                         *)
(* src/src/App.tsx holds two revisions of the component one after the      *)
(* other.  Lines 1-614 are the current one (priority classifier, Region    *)
(* type, CALCULATION_GRID_SIZE); lines 615-1362 are the superseded         *)
(* union-based one.  The model is of lines 1-614.                          *)
(*                                                                         *)
(* Numbers.  Every coordinate the pointer delivers here is an integer, so  *)
(* every sum and product of the code is an exact integer in IEEE doubles.  *)
(* The three places where the code leaves the integers are modelled by     *)
(* what they compute:                                                      *)
(*   - Math.abs(area) / 2 (calculatePixelArea) may be a half: an area is   *)
(*     the fraction [num, den];                                            *)
(*   - Math.sqrt(dx*dx + dy*dy) < SNAP_THRESHOLD (isNearStartPoint): sqrt  *)
(*     is monotone and exact on perfect squares, so the test is            *)
(*     dx*dx + dy*dy < SNAP_THRESHOLD^2;                                   *)
(*   - the division of isPointInShape is cleared by multiplying both       *)
(*     sides by yj - yi, with the comparison reversed when it is negative  *)
(*     (the quotient is either an integer, and then exact, or at least     *)
(*     1/|yj - yi| away from every integer, far more than a rounding       *)
(*     error).                                                             *)
(*                                                                         *)
(* The calibration leaves the integers as well: a length read from the     *)
(* input is a decimal fraction [num, den], and pixelRatio, which is         *)
(* length / Math.sqrt(dx*dx + dy*dy), is [num, den, d2] with                *)
(* d2 = dx*dx + dy*dy, so that pixelRatio * pixelRatio is the fraction      *)
(* num^2 / (den^2 * d2).  toFixed(2) is a number of hundredths.            *)
(*                                                                         *)
(* null is the empty sequence and a present value v is <<v>>.              *)
(***************************************************************************)
EXTENDS Integers, Sequences, FiniteSets, TLC

VARIABLES
    dimensions,       \* useState: {width, height} | null
    startPoint,       \* useState: Point | null, the pending press
    currentPath,      \* useState: Point[], the preview path
    shapes,           \* useState: Shape[], the Zone Store
    currentShape,     \* useState: Point[], the committed vertices
    selectedTool,     \* useState: DrawingTool
    ruler,            \* useState: Ruler | null
    pixelRatio,       \* useState: number | null, real units per pixel
    showRulerPrompt,  \* useState: boolean
    rulerLength,      \* useState: string, the text of the length input
    rulerUnit,        \* useState: 'ft' | 'm', the unit selected in the prompt
    hoveredRegionIndex, \* useState: number | null
    hoverPosition,    \* useState: Point | null
    seg,              \* one run of calculateZoneRegions: its locals and position
    pressed,          \* browser: the button went down on the canvas and is still down
    clickAt,          \* browser: the click event that follows a release, not yet dispatched
    gest,             \* history: the Zone Store and point of the last press, and how far the gesture got
    localStorage,     \* browser: the four persisted entries, each a text or null
    mounted           \* React: the first render of App returned, so the component is on the page

vars == <<dimensions, startPoint, currentPath, shapes, currentShape, selectedTool,
          ruler, pixelRatio, showRulerPrompt, rulerLength, rulerUnit,
          hoveredRegionIndex, hoverPosition, seg, pressed, clickAt, gest,
          localStorage, mounted>>

uiVars == <<dimensions, startPoint, currentPath, shapes, currentShape, selectedTool,
            ruler, pixelRatio, showRulerPrompt, rulerLength, rulerUnit,
            hoveredRegionIndex, hoverPosition, pressed, clickAt, gest,
            localStorage, mounted>>

----------------------------------------------------------------------------
(* Program constants *)

GRID_SIZE == 4
CALCULATION_GRID_SIZE == 2
SNAP_THRESHOLD == 10

ZoneKinds == {"regular", "exclusion", "drip"}
DrawingTool == {"regular", "exclusion", "drip", "ruler", "delete"}

----------------------------------------------------------------------------
(* Values *)

Null == <<>>
Some(v) == <<v>>
Pt(px, py) == [x |-> px, y |-> py]
Abs(n) == IF n < 0 THEN -n ELSE n

\* the number n as a fraction; NaN is the fraction 0 / 0
Num(n) == [num |-> n, den |-> 1]
NaN == [num |-> 0, den |-> 0]

----------------------------------------------------------------------------
(* Bounds of the environment *)

\* the image is CanvasW x CanvasH pixels
CanvasW == 14
CanvasH == 8
\* a release that would make the Zone Store longer than this is not delivered
MaxShapes == 1
\* a release that would make the committed vertex list longer than this is not delivered
MaxVerts == 3

\* the points the pointer collaborator delivers while drawing
PtA == Pt(0, 0)
PtN == Pt(4, 6)
PtB == Pt(12, 0)
PressPoints == {PtA}
ReleasePoints == {PtA, PtN, PtB}
MovePoints == {PtN}
\* the tools the user picks while drawing and deleting
DrawTools == {"regular", "drip", "delete"}

----------------------------------------------------------------------------
(* Geometry primitives *)

\* the loop of calculatePixelArea from index i (1-based) on
RECURSIVE ShoelaceFrom(_, _)
ShoelaceFrom(points, i) ==
    IF i > Len(points) THEN 0
    ELSE LET j == (i % Len(points)) + 1
         IN  points[i].x * points[j].y - points[j].x * points[i].y
               + ShoelaceFrom(points, i + 1)

\* calculatePixelArea without Math.abs
calculatePixelAreaSigned(points) == [num |-> ShoelaceFrom(points, 1), den |-> 2]

calculatePixelArea(points) == [num |-> Abs(ShoelaceFrom(points, 1)), den |-> 2]

isNearStartPoint(point, start) ==
    LET dx == point.x - start.x
        dy == point.y - start.y
    IN  dx * dx + dy * dy < SNAP_THRESHOLD * SNAP_THRESHOLD

\* the condition of the if in the loop of isPointInShape, for the edge (pj, pi)
EdgeToggles(point, pi, pj) ==
    /\ (pi.y > point.y) # (pj.y > point.y)
    /\ LET d   == pj.y - pi.y
           lhs == (point.x - pi.x) * d
           rhs == (pj.x - pi.x) * (point.y - pi.y)
       IN  IF d > 0 THEN lhs < rhs ELSE lhs > rhs

\* inside is toggled once per qualifying edge: the parity of their number
isPointInShape(point, shape) ==
    LET n == Len(shape)
        toggles == {i \in 1..n : EdgeToggles(point, shape[i], shape[IF i = 1 THEN n ELSE i - 1])}
    IN  Cardinality(toggles) % 2 = 1

----------------------------------------------------------------------------
(* Zone Store helpers of the handlers *)

\* findIndex taking the last shape that contains p, the topmost one
findLastIndex(ss, p) ==
    LET hits == {i \in 1..Len(ss) : isPointInShape(p, ss[i].points)}
    IN  IF hits = {} THEN -1
        ELSE (CHOOSE i \in hits : \A k \in hits : i >= k) - 1

\* shapes.findIndex(shape => isPointInShape(p, shape.points)): 0-based, -1 when none
findIndex(ss, p) ==
    LET hits == {i \in 1..Len(ss) : isPointInShape(p, ss[i].points)}
    IN  IF hits = {} THEN -1
        ELSE (CHOOSE i \in hits : \A k \in hits : i <= k) - 1

\* prev.filter((_, index) => index !== shapeIndex), shapeIndex 0-based
filterIndex(prev, shapeIndex) ==
    IF shapeIndex < 0 \/ shapeIndex >= Len(prev) THEN prev
    ELSE [i \in 1..(Len(prev) - 1) |-> IF i - 1 < shapeIndex THEN prev[i] ELSE prev[i + 1]]

----------------------------------------------------------------------------
(* Zone Classifier *)

\* getZoneTypeAtPoint with the drip test before the exclusion test
getZoneTypeDripFirst(point, ss) ==
    LET some(type) == \E i \in 1..Len(ss) :
                         ss[i].type = type /\ isPointInShape(point, ss[i].points)
    IN  IF some("drip") THEN "drip"
        ELSE IF some("exclusion") THEN "exclusion"
        ELSE IF some("regular") THEN "regular"
        ELSE "none"

\* getZoneTypeAtPoint with the regular test first
getZoneTypeRegularFirst(point, ss) ==
    LET some(type) == \E i \in 1..Len(ss) :
                         ss[i].type = type /\ isPointInShape(point, ss[i].points)
    IN  IF some("regular") THEN "regular"
        ELSE IF some("exclusion") THEN "exclusion"
        ELSE IF some("drip") THEN "drip"
        ELSE "none"

\* getZoneTypeAtPoint over the Zone Store ss; the code's null verdict is "none"
getZoneTypeAtPoint(point, ss) ==
    LET exclusionShapes == SelectSeq(ss, LAMBDA shape : shape.type = "exclusion")
        dripShapes      == SelectSeq(ss, LAMBDA shape : shape.type = "drip")
        regularShapes   == SelectSeq(ss, LAMBDA shape : shape.type = "regular")
        some(list)      == \E i \in 1..Len(list) : isPointInShape(point, list[i].points)
    IN  IF some(exclusionShapes) THEN "exclusion"
        ELSE IF some(dripShapes) THEN "drip"
        ELSE IF some(regularShapes) THEN "regular"
        ELSE "none"

----------------------------------------------------------------------------
(* Region Segmenter: calculateZoneRegions, one loop iteration per step.     *)
(* A run is a record of its locals: the shapes and dimensions of the render *)
(* it belongs to, the scan position x, y, the visited set (the keys "x,y"   *)
(* are the points themselves), the regions found, and, inside floodFill,    *)
(* its queue, region and type.  pc is "idle" (no run yet), "scan" (at the   *)
(* body of the inner for loop), "fill" (at the while loop of floodFill) or  *)
(* "done" (returned).  classified is history: the cells the run has passed  *)
(* to getZoneTypeAtPoint so far.                                            *)

SegIdle ==
    [pc |-> "idle", shapes |-> <<>>, dimensions |-> Null, x |-> 0, y |-> 0,
     visited |-> {}, regions |-> <<>>, queue |-> <<>>, region |-> <<>>, type |-> "none",
     classified |-> {}]

\* the tests of the two for loops, entered with the candidate position (cx, cy)
RECURSIVE ScanAt(_, _, _)
ScanAt(s, cx, cy) ==
    LET dim == s.dimensions[1]
    IN  IF cx >= dim.width THEN [s EXCEPT !.pc = "done", !.x = cx, !.y = cy]
        ELSE IF cy < dim.height THEN [s EXCEPT !.pc = "scan", !.x = cx, !.y = cy]
        ELSE ScanAt(s, cx + CALCULATION_GRID_SIZE, 0)

\* the call without the early return: an image of 16 x 16 pixels is assumed
SegStartAssumesImage(ss, dims) ==
    LET size == Some([width |-> 16, height |-> 16])
        s == [SegIdle EXCEPT !.shapes = ss, !.dimensions = IF dims = Null THEN size ELSE dims]
    IN  ScanAt(s, 0, 0)

\* the call: the filters, the locals, the early return and the entry of the loops
SegStart(ss, dims) ==
    LET s == [SegIdle EXCEPT !.shapes = ss, !.dimensions = dims]
    IN  IF dims = Null THEN [s EXCEPT !.pc = "done"]
        ELSE ScanAt(s, 0, 0)

\* the body of the inner for loop at (x, y)
ScanBody(s) ==
    LET point == Pt(s.x, s.y)
        type  == getZoneTypeAtPoint(point, s.shapes)
        c     == IF point \notin s.visited
                 THEN [s EXCEPT !.classified = {key : key \in @ \cup {point}}]
                 ELSE s
    IN  IF point \notin s.visited /\ type # "none"
        THEN [c EXCEPT !.pc = "fill", !.queue = <<point>>, !.region = <<>>, !.type = type]
        ELSE ScanAt(c, s.x, s.y + CALCULATION_GRID_SIZE)

\* the directions without the first one, up
directionsNoUp ==
    << [dx |-> 0, dy |-> CALCULATION_GRID_SIZE],
       [dx |-> -CALCULATION_GRID_SIZE, dy |-> 0],
       [dx |-> CALCULATION_GRID_SIZE, dy |-> 0] >>

\* the directions of floodFill, in the order of the array
directions ==
    << [dx |-> 0, dy |-> -CALCULATION_GRID_SIZE],
       [dx |-> 0, dy |-> CALCULATION_GRID_SIZE],
       [dx |-> -CALCULATION_GRID_SIZE, dy |-> 0],
       [dx |-> CALCULATION_GRID_SIZE, dy |-> 0] >>

\* the bounds test without x >= dimensions.width
OutOfCanvasNoWidth(point, dim) ==
    \/ point.x < 0
    \/ point.y < 0
    \/ point.y >= dim.height

\* the bounds part of the first test of the while loop
OutOfCanvas(point, dim) ==
    \/ point.x < 0
    \/ point.x >= dim.width
    \/ point.y < 0
    \/ point.y >= dim.height

\* the while loop reading queue[0] and removing it only when the point joins the region
FillPopKeepsRejected(s) ==
    LET point == Head(s.queue)
        rest  == Tail(s.queue)
        dim   == s.dimensions[1]
    IN  IF point \in s.visited \/ OutOfCanvas(point, dim)
        THEN s
        ELSE IF getZoneTypeAtPoint(point, s.shapes) # s.type
        THEN [s EXCEPT !.classified = {key : key \in @ \cup {point}}]
        ELSE [s EXCEPT !.visited = {key : key \in @ \cup {point}},
                       !.classified = {key : key \in @ \cup {point}},
                       !.region = Append(@, point),
                       !.queue = rest \o [i \in 1..Len(directions) |->
                                           Pt(point.x + directions[i].dx, point.y + directions[i].dy)]]

\* the while loop without visited.has(key) in its first test
FillPopNoVisitedTest(s) ==
    LET point == Head(s.queue)
        rest  == Tail(s.queue)
        dim   == s.dimensions[1]
    IN  IF OutOfCanvas(point, dim)
        THEN [s EXCEPT !.queue = rest]
        ELSE IF getZoneTypeAtPoint(point, s.shapes) # s.type
        THEN [s EXCEPT !.queue = rest, !.classified = {key : key \in @ \cup {point}}]
        ELSE [s EXCEPT !.visited = {key : key \in @ \cup {point}},
                       !.classified = {key : key \in @ \cup {point}},
                       !.region = Append(@, point),
                       !.queue = rest \o [i \in 1..Len(directions) |->
                                           Pt(point.x + directions[i].dx, point.y + directions[i].dy)]]

\* one iteration of the while loop of floodFill
FillPop(s) ==
    LET point == Head(s.queue)
        rest  == Tail(s.queue)
        dim   == s.dimensions[1]
    IN  IF point \in s.visited \/ OutOfCanvas(point, dim)
        THEN [s EXCEPT !.queue = rest]
        ELSE IF getZoneTypeAtPoint(point, s.shapes) # s.type
        THEN [s EXCEPT !.queue = rest, !.classified = {key : key \in @ \cup {point}}]
        ELSE [s EXCEPT !.visited = {key : key \in @ \cup {point}},
                       !.classified = {key : key \in @ \cup {point}},
                       !.region = Append(@, point),
                       !.queue = rest \o [i \in 1..Len(directions) |->
                                           Pt(point.x + directions[i].dx, point.y + directions[i].dy)]]

\* floodFill returns: regions.push when the region is not empty, then the loop goes on
FillReturn(s) ==
    LET pushed == IF Len(s.region) > 0
                  THEN [s EXCEPT !.regions = Append(@, [points |-> s.region, type |-> s.type])]
                  ELSE s
    IN  ScanAt([pushed EXCEPT !.region = <<>>], s.x, s.y + CALCULATION_GRID_SIZE)

SegStep(s) ==
    IF s.pc = "scan" THEN ScanBody(s)
    ELSE IF s.pc = "fill" /\ s.queue # <<>> THEN FillPop(s)
    ELSE IF s.pc = "fill" THEN FillReturn(s)
    ELSE s

\* n steps of a run, or as many as it has left (split in halves to keep the evaluation shallow)
RECURSIVE SegSteps(_, _)
SegSteps(s, n) ==
    IF n = 0 \/ s.pc = "done" THEN s
    ELSE IF n = 1 THEN SegStep(s)
    ELSE SegSteps(SegSteps(s, n \div 2), n - (n \div 2))

\* a run to its return, by stretches of n, 2n, 4n, ... steps
RECURSIVE RunFrom(_, _)
RunFrom(s, n) == IF s.pc = "done" THEN s ELSE RunFrom(SegSteps(s, n), 2 * n)

RunSeg(s) == RunFrom(s, 64)

\* the value calculateZoneRegions() returns for a Zone Store and dimensions
calculateZoneRegions(ss, dims) == RunSeg(SegStart(ss, dims)).regions

\* useMemo(() => calculateZoneRegions(), [shapes, dimensions]): the Region set of the last run
zoneRegions == seg.regions

\* the useMemo dependencies without dimensions
SegFreshShapesOnly == seg.pc = "done" /\ seg.shapes = shapes

\* the Region set of seg is the one of the current Zone Store and dimensions
SegFresh == seg.pc = "done" /\ seg.shapes = shapes /\ seg.dimensions = dimensions

\* calculateRegionArea with the cell size of the hover lookup
calculateRegionAreaGridSize(region) == Len(region) * (GRID_SIZE * GRID_SIZE)

\* calculateRegionArea with the side of a cell for its area
calculateRegionAreaCellSide(region) == Len(region) * CALCULATION_GRID_SIZE

calculateRegionArea(region) == Len(region) * (CALCULATION_GRID_SIZE * CALCULATION_GRID_SIZE)

RECURSIVE SumAreas(_)
SumAreas(rs) == IF rs = <<>> THEN 0 ELSE calculateRegionArea(Head(rs).points) + SumAreas(Tail(rs))

\* calculateTotalArea without the filter on the type
TotalAreaAllKinds(regions, type) == SumAreas(regions)

\* calculateTotalArea(type) over a Region set
TotalAreaOf(regions, type) == SumAreas(SelectSeq(regions, LAMBDA region : region.type = type))

calculateTotalArea(type) == TotalAreaOf(zoneRegions, type)

----------------------------------------------------------------------------
(* The history of the current gesture.  store and tool are the Zone Store   *)
(* and the tool when the press was handled (tool again at the release), at  *)
(* and up are the press and release points, phase is "down" after the       *)
(* press, "up" after a release that handleMouseUp did not ignore, "click"   *)
(* after the click that followed it, "none" otherwise: a pointer-leave or   *)
(* a tool selection ends the gesture, and so does any event after its click.*)
(* After a click on Set Scale phase is "confirmed" when the calibration was *)
(* stored and "rejected" when handleRulerSubmit returned before it.         *)
(* After a release that handleMouseUp ignored phase is "ignored", after a   *)
(* pointer-leave it is "left".                                              *)
(* After a tool selection that replaces a zone kind by another zone kind    *)
(* phase is "kind".                                                         *)

GestNone == [store |-> <<>>, at |-> Null, up |-> Null, tool |-> "regular", phase |-> "none"]

----------------------------------------------------------------------------
(* Texts and numbers.  A text of the length input is a sequence of         *)
(* characters.                                                              *)

DigitChars == <<"0", "1", "2", "3", "4", "5", "6", "7", "8", "9">>
IsDigit(c) == \E i \in 1..10 : DigitChars[i] = c
DigitOf(c) == (CHOOSE i \in 1..10 : DigitChars[i] = c) - 1

\* the position after the digits that start at position i
RECURSIVE DigitRun(_, _)
DigitRun(text, i) ==
    IF i <= Len(text) /\ IsDigit(text[i]) THEN DigitRun(text, i + 1) ELSE i

\* the number the digits at positions i .. j - 1 spell
RECURSIVE DigitsValue(_, _, _)
DigitsValue(text, i, j) ==
    IF j <= i THEN 0 ELSE 10 * DigitsValue(text, i, j - 1) + DigitOf(text[j - 1])

RECURSIVE Pow10(_)
Pow10(k) == IF k = 0 THEN 1 ELSE 10 * Pow10(k - 1)

\* parseFloat on unsigned decimals: the longest prefix digits[.digits], NaN when it has no digit
parseFloat(text) ==
    LET e1 == DigitRun(text, 1)
        hasDot == e1 <= Len(text) /\ text[e1] = "."
        e2 == IF hasDot THEN DigitRun(text, e1 + 1) ELSE e1
        nFrac == IF hasDot THEN e2 - e1 - 1 ELSE 0
    IN  IF (e1 - 1) + nFrac = 0 THEN NaN
        ELSE [num |-> DigitsValue(text, 1, e1) * Pow10(nFrac)
                        + (IF hasDot THEN DigitsValue(text, e1 + 1, e2) ELSE 0),
              den |-> Pow10(nFrac)]

----------------------------------------------------------------------------
(* Persistence.  localStorage maps each key to null or to a text.  A text   *)
(* is modelled by how it was made: JSON.stringify(v) is the JSON text of v, *)
(* number.toString() is the decimal text of a number, and any other text    *)
(* is its characters.  JSON.parse returns v on the JSON text of v and       *)
(* throws a SyntaxError on a text that is not JSON; parseFloat returns the  *)
(* number on its decimal text (toString prints a double so that it reads    *)
(* back as the same double) and parses the characters of any other text.    *)

NoStorage ==
    [irrigationShapes |-> Null, irrigationRuler |-> Null,
     irrigationPixelRatio |-> Null, irrigationDimensions |-> Null]

JSONstringify(v) == [kind |-> "json", value |-> v]
toString(n) == [kind |-> "number", value |-> n]
Chars(cs) == [kind |-> "chars", chars |-> cs]

\* JSON.parse(text): the value, or thrown
JSONparse(text) ==
    IF text.kind = "json" THEN [thrown |-> FALSE, value |-> text.value]
    ELSE [thrown |-> TRUE, value |-> Null]

\* a number as pixelRatio holds it: (num / den) / sqrt(d2)
Ratio(n) == [num |-> n.num, den |-> n.den, d2 |-> 1]

\* parseFloat(savedRatio)
parseFloatSaved(text) ==
    IF text.kind = "number" THEN text.value
    ELSE IF text.kind = "chars" THEN Ratio(parseFloat(text.chars))
    ELSE Ratio(NaN)

\* a string is truthy unless it is empty; a number unless it is 0 or NaN
TruthyText(entry) == entry # Null /\ entry[1] # Chars(<<>>)
TruthyRatio(pr) == pr # Null /\ pr[1].num # 0 /\ pr[1].den # 0

\* the four effects that write localStorage, as they run after the first render
Saved(st, ss, r, pr, dims) ==
    [irrigationShapes     |-> Some(JSONstringify(ss)),
     irrigationRuler      |-> IF r # Null THEN Some(JSONstringify(r[1])) ELSE st.irrigationRuler,
     irrigationPixelRatio |-> IF TruthyRatio(pr) THEN Some(toString(pr[1]))
                              ELSE st.irrigationPixelRatio,
     irrigationDimensions |-> IF dims # Null THEN Some(JSONstringify(dims[1]))
                              ELSE st.irrigationDimensions]

\* the effects after the render of a handler's updates: each runs when its dependency changed
useEffectSave ==
    localStorage' =
        [irrigationShapes     |-> IF shapes' # shapes THEN Some(JSONstringify(shapes'))
                                  ELSE localStorage.irrigationShapes,
         irrigationRuler      |-> IF ruler' # ruler /\ ruler' # Null
                                  THEN Some(JSONstringify(ruler'[1]))
                                  ELSE localStorage.irrigationRuler,
         irrigationPixelRatio |-> IF pixelRatio' # pixelRatio /\ TruthyRatio(pixelRatio')
                                  THEN Some(toString(pixelRatio'[1]))
                                  ELSE localStorage.irrigationPixelRatio,
         irrigationDimensions |-> IF dimensions' # dimensions /\ dimensions' # Null
                                  THEN Some(JSONstringify(dimensions'[1]))
                                  ELSE localStorage.irrigationDimensions]

----------------------------------------------------------------------------
(* Handlers.  The browser dispatches the click of a press and release on    *)
(* the canvas right after the mouseup, before any other event, and React    *)
(* re-renders between the two, so handleCanvasClick sees the state          *)
(* handleMouseUp left.                                                      *)

\* handleMouseDown that commits the press point as a vertex when a zone tool is selected
handleMouseDownCommits(p) ==
    /\ clickAt = Null
    /\ startPoint' = Some(p)
    /\ currentShape' = IF selectedTool \in ZoneKinds THEN Append(currentShape, p) ELSE currentShape
    /\ pressed' = TRUE
    /\ gest' = [store |-> shapes, at |-> Some(p), up |-> Null, tool |-> selectedTool, phase |-> "down"]
    /\ UNCHANGED <<pixelRatio, rulerLength, rulerUnit>>
    /\ UNCHANGED <<dimensions, currentPath, shapes, selectedTool, ruler,
                   showRulerPrompt, hoveredRegionIndex, hoverPosition, seg, clickAt>>
    /\ UNCHANGED <<localStorage, mounted>>

handleMouseDown(p) ==
    /\ clickAt = Null
    /\ startPoint' = Some(p)
    /\ pressed' = TRUE
    /\ gest' = [store |-> shapes, at |-> Some(p), up |-> Null, tool |-> selectedTool, phase |-> "down"]
    /\ UNCHANGED <<pixelRatio, rulerLength, rulerUnit>>
    /\ UNCHANGED <<dimensions, currentPath, shapes, currentShape, selectedTool, ruler,
                   showRulerPrompt, hoveredRegionIndex, hoverPosition, seg, clickAt>>
    /\ UNCHANGED <<localStorage, mounted>>

\* zoneRegions.findIndex(region => region.points.some(p => p.x === gridX && p.y === gridY))
findRegionIndex(regions, gridX, gridY) ==
    LET hits == {i \in 1..Len(regions) :
                   \E k \in 1..Len(regions[i].points) :
                       regions[i].points[k].x = gridX /\ regions[i].points[k].y = gridY}
    IN  IF hits = {} THEN -1
        ELSE (CHOOSE i \in hits : \A k \in hits : i <= k) - 1

handleMouseMove(p) ==
    /\ clickAt = Null
    /\ IF dimensions = Null
       THEN UNCHANGED <<currentPath, hoveredRegionIndex, hoverPosition>>
       ELSE IF startPoint # Null
       THEN /\ currentPath' =
                 IF Len(currentShape) > 2 /\ isNearStartPoint(p, currentShape[1])
                 THEN <<startPoint[1], currentShape[1]>>
                 ELSE <<startPoint[1], p>>
            /\ UNCHANGED <<hoveredRegionIndex, hoverPosition>>
       ELSE LET gridX == (p.x \div GRID_SIZE) * GRID_SIZE
                gridY == (p.y \div GRID_SIZE) * GRID_SIZE
                regionIndex == findRegionIndex(zoneRegions, gridX, gridY)
                hovered == IF regionIndex # -1 THEN Some(regionIndex) ELSE Null
            IN  /\ IF hovered # hoveredRegionIndex
                   THEN /\ hoveredRegionIndex' = hovered
                        /\ hoverPosition' = IF regionIndex # -1 THEN Some(p) ELSE Null
                   ELSE UNCHANGED <<hoveredRegionIndex, hoverPosition>>
                /\ UNCHANGED currentPath
    /\ gest' = IF gest.phase = "down" THEN gest ELSE GestNone
    /\ UNCHANGED <<pixelRatio, rulerLength, rulerUnit>>
    /\ UNCHANGED <<dimensions, startPoint, shapes, currentShape, selectedTool, ruler,
                   showRulerPrompt, seg, pressed, clickAt>>
    /\ UNCHANGED <<localStorage, mounted>>

\* the first commit keeping the release point alone
firstVerticesReleaseOnly(start, current) == <<current>>

\* setCurrentShape([startPoint, currentPoint]): the vertex list after the first commit
firstVertices(start, current) == <<start, current>>

\* the Shape of a closure tagged regular whatever the tool is
DrawnRegular(vertices, type) ==
    LET closedShape == Append(vertices, vertices[1])
    IN  [points |-> closedShape, area |-> calculatePixelArea(closedShape), type |-> "regular"]

\* the Shape a closure emits: { points: closedShape, area, type: selectedTool }
Drawn(vertices, type) ==
    LET closedShape == Append(vertices, vertices[1])
    IN  [points |-> closedShape, area |-> calculatePixelArea(closedShape), type |-> type]

\* handleMouseUp without the branches of the ruler and delete tools: every tool draws
handleMouseUpNoToolBranches(p) ==
    /\ clickAt = Null
    /\ pressed' = FALSE
    /\ clickAt' = IF pressed THEN Some(p) ELSE Null
    /\ IF startPoint = Null
       THEN /\ gest' = [GestNone EXCEPT !.phase = "ignored"]
            /\ UNCHANGED <<startPoint, currentPath, shapes, currentShape, ruler, showRulerPrompt>>
       ELSE /\ gest' = IF gest.phase = "down"
                       THEN [gest EXCEPT !.up = Some(p), !.tool = selectedTool, !.phase = "up"]
                       ELSE GestNone
            /\ IF Len(currentShape) = 0
               THEN /\ currentShape' = firstVertices(startPoint[1], p)
                    /\ UNCHANGED <<shapes, ruler, showRulerPrompt>>
               ELSE IF isNearStartPoint(p, currentShape[1])
               THEN /\ shapes' = Append(shapes, Drawn(currentShape, selectedTool))
                    /\ currentShape' = <<>>
                    /\ UNCHANGED <<ruler, showRulerPrompt>>
               ELSE /\ currentShape' = Append(currentShape, p)
                    /\ UNCHANGED <<shapes, ruler, showRulerPrompt>>
            /\ startPoint' = Null
            /\ currentPath' = <<>>
    /\ UNCHANGED <<pixelRatio, rulerLength, rulerUnit>>
    /\ UNCHANGED <<dimensions, selectedTool, hoveredRegionIndex, hoverPosition, seg>>
    /\ UNCHANGED mounted
    /\ useEffectSave

\* handleMouseUp without its first line: a release is handled whether a press is pending or not
handleMouseUpNoPressTest(p) ==
    /\ clickAt = Null
    /\ pressed' = FALSE
    /\ clickAt' = IF pressed THEN Some(p) ELSE Null
    /\ LET start == IF startPoint = Null THEN p ELSE startPoint[1]
       IN   /\ gest' = IF gest.phase = "down"
                       THEN [gest EXCEPT !.up = Some(p), !.tool = selectedTool, !.phase = "up"]
                       ELSE GestNone
            /\ IF selectedTool = "ruler"
               THEN /\ ruler' = Some([start |-> start, end |-> p, length |-> Num(0), unit |-> "ft"])
                    /\ showRulerPrompt' = TRUE
                    /\ UNCHANGED <<shapes, currentShape>>
               ELSE IF selectedTool = "delete"
               THEN LET shapeIndex == findIndex(shapes, p)
                    IN  /\ shapes' = IF shapeIndex # -1 THEN filterIndex(shapes, shapeIndex) ELSE shapes
                        /\ UNCHANGED <<currentShape, ruler, showRulerPrompt>>
               ELSE IF Len(currentShape) = 0
               THEN /\ currentShape' = firstVertices(start, p)
                    /\ UNCHANGED <<shapes, ruler, showRulerPrompt>>
               ELSE IF isNearStartPoint(p, currentShape[1])
               THEN /\ shapes' = Append(shapes, Drawn(currentShape, selectedTool))
                    /\ currentShape' = <<>>
                    /\ UNCHANGED <<ruler, showRulerPrompt>>
               ELSE /\ currentShape' = Append(currentShape, p)
                    /\ UNCHANGED <<shapes, ruler, showRulerPrompt>>
            /\ startPoint' = Null
            /\ currentPath' = <<>>
    /\ UNCHANGED <<pixelRatio, rulerLength, rulerUnit>>
    /\ UNCHANGED <<dimensions, selectedTool, hoveredRegionIndex, hoverPosition, seg>>
    /\ UNCHANGED mounted
    /\ useEffectSave

\* handleMouseUp whose ruler branch drops the committed vertices
handleMouseUpRulerDropsVertices(p) ==
    /\ clickAt = Null
    /\ pressed' = FALSE
    /\ clickAt' = IF pressed THEN Some(p) ELSE Null
    /\ IF startPoint = Null
       THEN /\ gest' = [GestNone EXCEPT !.phase = "ignored"]
            /\ UNCHANGED <<startPoint, currentPath, shapes, currentShape, ruler, showRulerPrompt>>
       ELSE /\ gest' = IF gest.phase = "down"
                       THEN [gest EXCEPT !.up = Some(p), !.tool = selectedTool, !.phase = "up"]
                       ELSE GestNone
            /\ IF selectedTool = "ruler"
               THEN /\ ruler' = Some([start |-> startPoint[1], end |-> p, length |-> Num(0), unit |-> "ft"])
                    /\ showRulerPrompt' = TRUE
                    /\ currentShape' = <<>>
                    /\ UNCHANGED shapes
               ELSE IF selectedTool = "delete"
               THEN LET shapeIndex == findIndex(shapes, p)
                    IN  /\ shapes' = IF shapeIndex # -1 THEN filterIndex(shapes, shapeIndex) ELSE shapes
                        /\ UNCHANGED <<currentShape, ruler, showRulerPrompt>>
               ELSE IF Len(currentShape) = 0
               THEN /\ currentShape' = firstVertices(startPoint[1], p)
                    /\ UNCHANGED <<shapes, ruler, showRulerPrompt>>
               ELSE IF isNearStartPoint(p, currentShape[1])
               THEN /\ shapes' = Append(shapes, Drawn(currentShape, selectedTool))
                    /\ currentShape' = <<>>
                    /\ UNCHANGED <<ruler, showRulerPrompt>>
               ELSE /\ currentShape' = Append(currentShape, p)
                    /\ UNCHANGED <<shapes, ruler, showRulerPrompt>>
            /\ startPoint' = Null
            /\ currentPath' = <<>>
    /\ UNCHANGED <<pixelRatio, rulerLength, rulerUnit>>
    /\ UNCHANGED <<dimensions, selectedTool, hoveredRegionIndex, hoverPosition, seg>>
    /\ UNCHANGED mounted
    /\ useEffectSave

handleMouseUp(p) ==
    /\ clickAt = Null
    /\ pressed' = FALSE
    /\ clickAt' = IF pressed THEN Some(p) ELSE Null
    /\ IF startPoint = Null
       THEN /\ gest' = [GestNone EXCEPT !.phase = "ignored"]
            /\ UNCHANGED <<startPoint, currentPath, shapes, currentShape, ruler, showRulerPrompt>>
       ELSE /\ gest' = IF gest.phase = "down"
                       THEN [gest EXCEPT !.up = Some(p), !.tool = selectedTool, !.phase = "up"]
                       ELSE GestNone
            /\ IF selectedTool = "ruler"
               THEN /\ ruler' = Some([start |-> startPoint[1], end |-> p, length |-> Num(0), unit |-> "ft"])
                    /\ showRulerPrompt' = TRUE
                    /\ UNCHANGED <<shapes, currentShape>>
               ELSE IF selectedTool = "delete"
               THEN LET shapeIndex == findIndex(shapes, p)
                    IN  /\ shapes' = IF shapeIndex # -1 THEN filterIndex(shapes, shapeIndex) ELSE shapes
                        /\ UNCHANGED <<currentShape, ruler, showRulerPrompt>>
               ELSE IF Len(currentShape) = 0
               THEN /\ currentShape' = firstVertices(startPoint[1], p)
                    /\ UNCHANGED <<shapes, ruler, showRulerPrompt>>
               ELSE IF isNearStartPoint(p, currentShape[1])
               THEN /\ shapes' = Append(shapes, Drawn(currentShape, selectedTool))
                    /\ currentShape' = <<>>
                    /\ UNCHANGED <<ruler, showRulerPrompt>>
               ELSE /\ currentShape' = Append(currentShape, p)
                    /\ UNCHANGED <<shapes, ruler, showRulerPrompt>>
            /\ startPoint' = Null
            /\ currentPath' = <<>>
    /\ UNCHANGED <<pixelRatio, rulerLength, rulerUnit>>
    /\ UNCHANGED <<dimensions, selectedTool, hoveredRegionIndex, hoverPosition, seg>>
    /\ UNCHANGED mounted
    /\ useEffectSave

\* handleMouseLeave that drops the committed vertices as well
handleMouseLeaveDropsVertices ==
    /\ clickAt = Null
    /\ startPoint' = Null
    /\ currentPath' = <<>>
    /\ currentShape' = <<>>
    /\ hoveredRegionIndex' = Null
    /\ hoverPosition' = Null
    /\ pressed' \in {pressed, FALSE}
    /\ gest' = [GestNone EXCEPT !.phase = "left"]
    /\ UNCHANGED <<pixelRatio, rulerLength, rulerUnit>>
    /\ UNCHANGED <<dimensions, shapes, selectedTool, ruler, showRulerPrompt, seg, clickAt>>
    /\ UNCHANGED <<localStorage, mounted>>

\* the button may have been released outside the canvas by the time the pointer is back
handleMouseLeave ==
    /\ clickAt = Null
    /\ startPoint' = Null
    /\ currentPath' = <<>>
    /\ hoveredRegionIndex' = Null
    /\ hoverPosition' = Null
    /\ pressed' \in {pressed, FALSE}
    /\ gest' = [GestNone EXCEPT !.phase = "left"]
    /\ UNCHANGED <<pixelRatio, rulerLength, rulerUnit>>
    /\ UNCHANGED <<dimensions, shapes, currentShape, selectedTool, ruler, showRulerPrompt,
                   seg, clickAt>>
    /\ UNCHANGED <<localStorage, mounted>>

handleCanvasClick(p) ==
    /\ clickAt = Some(p)
    /\ clickAt' = Null
    /\ gest' = IF gest.phase = "up" THEN [gest EXCEPT !.phase = "click"] ELSE GestNone
    /\ IF selectedTool # "delete"
       THEN UNCHANGED shapes
       ELSE LET shapeIndex == findIndex(shapes, p)
            IN  shapes' = IF shapeIndex # -1 THEN filterIndex(shapes, shapeIndex) ELSE shapes
    /\ UNCHANGED <<pixelRatio, rulerLength, rulerUnit>>
    /\ UNCHANGED <<dimensions, startPoint, currentPath, currentShape, selectedTool, ruler,
                   showRulerPrompt, hoveredRegionIndex, hoverPosition, seg, pressed>>
    /\ UNCHANGED mounted
    /\ useEffectSave

\* the onClick of a tool button
setSelectedTool(t) ==
    /\ clickAt = Null
    /\ selectedTool' = t
    /\ gest' = IF t # selectedTool /\ t \in ZoneKinds /\ selectedTool \in ZoneKinds
               THEN [GestNone EXCEPT !.phase = "kind"]
               ELSE GestNone
    /\ UNCHANGED <<pixelRatio, rulerLength, rulerUnit>>
    /\ UNCHANGED <<dimensions, startPoint, currentPath, shapes, currentShape, ruler,
                   showRulerPrompt, hoveredRegionIndex, hoverPosition, seg, pressed, clickAt>>
    /\ UNCHANGED <<localStorage, mounted>>

----------------------------------------------------------------------------
(* Calibration.  The text of the length input is a sequence of characters. *)

\* the square of the distance along x alone
calculatePixelDistance2NoDy(p1, p2) == (p2.x - p1.x) * (p2.x - p1.x)

\* the square of calculatePixelDistance(p1, p2)
calculatePixelDistance2(p1, p2) ==
    LET dx == p2.x - p1.x
        dy == p2.y - p1.y
    IN  dx * dx + dy * dy

\* the onChange of the length input and of the unit select
setRulerLength(text) ==
    /\ clickAt = Null
    /\ rulerLength' = text
    /\ gest' = GestNone
    /\ UNCHANGED <<dimensions, startPoint, currentPath, shapes, currentShape, selectedTool,
                   ruler, pixelRatio, showRulerPrompt, rulerUnit, hoveredRegionIndex,
                   hoverPosition, seg, pressed, clickAt>>
    /\ UNCHANGED <<localStorage, mounted>>

setRulerUnit(unit) ==
    /\ clickAt = Null
    /\ rulerUnit' = unit
    /\ gest' = GestNone
    /\ UNCHANGED <<dimensions, startPoint, currentPath, shapes, currentShape, selectedTool,
                   ruler, pixelRatio, showRulerPrompt, rulerLength, hoveredRegionIndex,
                   hoverPosition, seg, pressed, clickAt>>
    /\ UNCHANGED <<localStorage, mounted>>

\* handleRulerSubmit that closes the prompt and clears the input before its tests
handleRulerSubmitCloses ==
    /\ clickAt = Null
    /\ IF ruler = Null \/ rulerLength = <<>>
       THEN /\ gest' = [GestNone EXCEPT !.phase = "rejected"]
            /\ showRulerPrompt' = FALSE
            /\ rulerLength' = <<>>
            /\ UNCHANGED <<pixelRatio, ruler>>
       ELSE LET length == parseFloat(rulerLength)
            IN  IF length = NaN
                THEN /\ gest' = [GestNone EXCEPT !.phase = "rejected"]
                     /\ showRulerPrompt' = FALSE
                     /\ rulerLength' = <<>>
                     /\ UNCHANGED <<pixelRatio, ruler>>
                ELSE LET pixelDistance2 == calculatePixelDistance2(ruler[1].start, ruler[1].end)
                         ratio == [num |-> length.num, den |-> length.den, d2 |-> pixelDistance2]
                     IN  /\ gest' = [GestNone EXCEPT !.phase = "confirmed"]
                         /\ pixelRatio' = Some(ratio)
                         /\ ruler' = Some([ruler[1] EXCEPT !.length = length, !.unit = rulerUnit])
                         /\ showRulerPrompt' = FALSE
                         /\ rulerLength' = <<>>
    /\ UNCHANGED <<dimensions, startPoint, currentPath, shapes, currentShape, selectedTool,
                   rulerUnit, hoveredRegionIndex, hoverPosition, seg, pressed, clickAt>>
    /\ UNCHANGED mounted
    /\ useEffectSave

\* the onClick of Set Scale; the state updates of one handler are applied together
handleRulerSubmit ==
    /\ clickAt = Null
    /\ IF ruler = Null \/ rulerLength = <<>>
       THEN /\ gest' = [GestNone EXCEPT !.phase = "rejected"]
            /\ UNCHANGED <<pixelRatio, ruler, showRulerPrompt, rulerLength>>
       ELSE LET length == parseFloat(rulerLength)
            IN  IF length = NaN
                THEN /\ gest' = [GestNone EXCEPT !.phase = "rejected"]
                     /\ UNCHANGED <<pixelRatio, ruler, showRulerPrompt, rulerLength>>
                ELSE LET pixelDistance2 == calculatePixelDistance2(ruler[1].start, ruler[1].end)
                         ratio == [num |-> length.num, den |-> length.den, d2 |-> pixelDistance2]
                     IN  /\ gest' = [GestNone EXCEPT !.phase = "confirmed"]
                         /\ pixelRatio' = Some(ratio)
                         /\ ruler' = Some([ruler[1] EXCEPT !.length = length, !.unit = rulerUnit])
                         /\ showRulerPrompt' = FALSE
                         /\ rulerLength' = <<>>
    /\ UNCHANGED <<dimensions, startPoint, currentPath, shapes, currentShape, selectedTool,
                   rulerUnit, hoveredRegionIndex, hoverPosition, seg, pressed, clickAt>>
    /\ UNCHANGED mounted
    /\ useEffectSave

\* img.onload of handleImageUpload: setImage and setDimensions
handleImageUpload(d) ==
    /\ clickAt = Null
    /\ dimensions' = Some(d)
    /\ gest' = GestNone
    /\ UNCHANGED <<startPoint, currentPath, shapes, currentShape, selectedTool, ruler,
                   pixelRatio, showRulerPrompt, rulerLength, rulerUnit, hoveredRegionIndex,
                   hoverPosition, seg, pressed, clickAt>>
    /\ UNCHANGED mounted
    /\ useEffectSave

\* what formatArea returns: 'Set ruler first', or a number to two decimals and a unit
Uncalibrated == [text |-> "Set ruler first", hundredths |-> 0, unit |-> ""]

\* the hundredths of a / b cut off, not rounded
toFixed2Floor(a, b) == (100 * a) \div b

\* number.toFixed(2) of the fraction a / b, b > 0, in hundredths
toFixed2(a, b) == (200 * a + b) \div (2 * b)

\* formatArea with 0 for a missing pixelRatio
formatAreaZero(pixelArea) ==
    IF pixelRatio = Null \/ pixelRatio[1].num = 0
    THEN [text |-> "toFixed(2)", hundredths |-> 0, unit |-> "ft"]
    ELSE [text |-> "toFixed(2)",
          hundredths |-> toFixed2(pixelArea * pixelRatio[1].num * pixelRatio[1].num,
                                  pixelRatio[1].den * pixelRatio[1].den * pixelRatio[1].d2),
          unit |-> IF ruler # Null THEN ruler[1].unit ELSE "ft"]

\* const realArea = pixelArea * (pixelRatio * pixelRatio), for a pixelRatio with d2 > 0
realArea(pixelArea) ==
    [num |-> pixelArea * pixelRatio[1].num * pixelRatio[1].num,
     den |-> pixelRatio[1].den * pixelRatio[1].den * pixelRatio[1].d2]

formatArea(pixelArea) ==
    IF pixelRatio = Null \/ pixelRatio[1].num = 0
    THEN Uncalibrated
    ELSE LET r == pixelRatio[1]
             unit == IF ruler # Null THEN ruler[1].unit ELSE "ft"
         IN  IF r.d2 = 0
             THEN [text |-> IF pixelArea = 0 THEN "NaN" ELSE "Infinity", hundredths |-> 0, unit |-> unit]
             ELSE [text |-> "toFixed(2)",
                   hundredths |-> toFixed2(realArea(pixelArea).num, realArea(pixelArea).den),
                   unit |-> unit]

\* the render after a change of shapes or dimensions: useMemo calls calculateZoneRegions,
\* which runs to its return before the next event is handled
renderZoneRegions ==
    /\ seg.pc \in {"idle", "done"}
    /\ ~SegFresh
    /\ seg' = RunSeg(SegStart(shapes, dimensions))
    /\ UNCHANGED uiVars

----------------------------------------------------------------------------
(* Drawing and deleting from an empty Zone Store on a loaded image.  An     *)
(* event is handled once the render of the previous one is over.            *)

\* the release p keeps the Zone Store and the vertex list within MaxShapes and MaxVerts
WithinBounds(p) ==
    IF startPoint = Null \/ selectedTool \in {"ruler", "delete"} \/ Len(currentShape) = 0
    THEN TRUE
    ELSE IF isNearStartPoint(p, currentShape[1])
    THEN Len(shapes) < MaxShapes
    ELSE Len(currentShape) < MaxVerts

Init ==
    /\ dimensions = Some([width |-> CanvasW, height |-> CanvasH])
    /\ startPoint = Null
    /\ currentPath = <<>>
    /\ shapes = <<>>
    /\ currentShape = <<>>
    /\ selectedTool = "regular"
    /\ ruler = Null
    /\ pixelRatio = Null
    /\ showRulerPrompt = FALSE
    /\ rulerLength = <<>>
    /\ rulerUnit = "ft"
    /\ hoveredRegionIndex = Null
    /\ hoverPosition = Null
    /\ seg = SegIdle
    /\ pressed = FALSE
    /\ clickAt = Null
    /\ gest = GestNone
    /\ mounted = TRUE
    /\ localStorage = Saved(NoStorage, shapes, ruler, pixelRatio, dimensions)

Next ==
    \/ renderZoneRegions
    \/ SegFresh /\ \E p \in PressPoints : handleMouseDown(p)
    \/ SegFresh /\ \E p \in MovePoints : handleMouseMove(p)
    \/ SegFresh /\ \E p \in ReleasePoints : WithinBounds(p) /\ handleMouseUp(p)
    \/ SegFresh /\ handleMouseLeave
    \/ SegFresh /\ \E p \in ReleasePoints : handleCanvasClick(p)
    \/ SegFresh /\ \E t \in DrawTools : setSelectedTool(t)

Spec == Init /\ [][Next]_vars

----------------------------------------------------------------------------
(* Shapes as handleMouseUp emits them, for Zone Stores restored from        *)
(* localStorage.  After the second vertex a release within SNAP_THRESHOLD   *)
(* of the first vertex closes the polygon, so the third and later vertices  *)
(* of a drawn shape are at least SNAP_THRESHOLD away from the first.        *)

\* the image of the stores below is SegSize x SegSize pixels
SegSize == 16

ShapeR == Drawn(<<Pt(0, 0), Pt(14, 0), Pt(14, 14), Pt(0, 14)>>, "regular")
ShapeT == Drawn(<<Pt(0, 0), Pt(14, 0), Pt(0, 14)>>, "regular")
ShapeD == Drawn(<<Pt(2, 2), Pt(12, 2), Pt(12, 12), Pt(2, 12)>>, "drip")
ShapeC == Drawn(<<Pt(14, 14), Pt(2, 14), Pt(14, 2)>>, "drip")
ShapeE == Drawn(<<Pt(6, 0), Pt(10, 0), Pt(10, 14), Pt(6, 14)>>, "exclusion")
ShapeZ == Drawn(<<Pt(0, 0), Pt(12, 0)>>, "regular")

\* the sequences of at most 2, at most 3 distinct elements of S
SeqsUpTo2(S) ==
    {<<>>} \cup {<<s>> : s \in S}
           \cup {q \in {<<s, t>> : s \in S, t \in S} : q[1] # q[2]}
SeqsUpTo3(S) ==
    SeqsUpTo2(S)
        \cup {q \in {<<s, t, u>> : s \in S, t \in S, u \in S} :
                 q[1] # q[2] /\ q[1] # q[3] /\ q[2] # q[3]}

----------------------------------------------------------------------------
(* Deleting from a restored Zone Store *)

DelStores == SeqsUpTo3({ShapeT, ShapeD, ShapeE})
DelPoints == {Pt(4, 4), Pt(8, 8), Pt(15, 15)}

InitDel ==
    /\ dimensions = Some([width |-> SegSize, height |-> SegSize])
    /\ startPoint = Null
    /\ currentPath = <<>>
    /\ shapes \in DelStores
    /\ currentShape = <<>>
    /\ selectedTool = "regular"
    /\ ruler = Null
    /\ pixelRatio = Null
    /\ showRulerPrompt = FALSE
    /\ rulerLength = <<>>
    /\ rulerUnit = "ft"
    /\ hoveredRegionIndex = Null
    /\ hoverPosition = Null
    /\ seg = SegIdle
    /\ pressed = FALSE
    /\ clickAt = Null
    /\ gest = GestNone
    /\ mounted = TRUE
    /\ localStorage = Saved(NoStorage, shapes, ruler, pixelRatio, dimensions)

\* the user picks the delete tool and then works on the canvas
NextDel ==
    \/ renderZoneRegions
    \/ SegFresh /\ setSelectedTool("delete")
    \/ SegFresh /\ selectedTool = "delete" /\ \E p \in DelPoints : handleMouseDown(p)
    \/ SegFresh /\ selectedTool = "delete" /\ \E p \in DelPoints : handleMouseMove(p)
    \/ SegFresh /\ selectedTool = "delete" /\ \E p \in DelPoints : handleMouseUp(p)
    \/ SegFresh /\ selectedTool = "delete" /\ handleMouseLeave
    \/ SegFresh /\ selectedTool = "delete" /\ \E p \in DelPoints : handleCanvasClick(p)

SpecDel == InitDel /\ [][NextDel]_vars

----------------------------------------------------------------------------
(* One run of the Region Segmenter, step by step *)

\* a render whose useMemo dependencies [shapes, dimensions] changed calls calculateZoneRegions
useMemoZoneRegions ==
    /\ seg.pc \in {"idle", "done"}
    /\ ~SegFresh
    /\ seg' = SegStart(shapes, dimensions)
    /\ UNCHANGED uiVars

ScanStep ==
    /\ seg.pc = "scan"
    /\ seg' = ScanBody(seg)
    /\ UNCHANGED uiVars

FillStep ==
    /\ seg.pc = "fill"
    /\ seg.queue # <<>>
    /\ seg' = FillPop(seg)
    /\ UNCHANGED uiVars

FillReturnStep ==
    /\ seg.pc = "fill"
    /\ seg.queue = <<>>
    /\ seg' = FillReturn(seg)
    /\ UNCHANGED uiVars

SegStores ==
    SeqsUpTo2({ShapeR, ShapeT, ShapeD, ShapeC, ShapeE, ShapeZ})
        \cup {<<ShapeR, ShapeD, ShapeE>>, <<ShapeE, ShapeD, ShapeR>>, <<ShapeT, ShapeC, ShapeE>>}

SegDims ==
    {[width |-> SegSize, height |-> SegSize], [width |-> SegSize - 6, height |-> SegSize - 4]}

InitSeg ==
    /\ dimensions \in {Some(d) : d \in SegDims} \cup {Null}
    /\ startPoint = Null
    /\ currentPath = <<>>
    /\ shapes \in SegStores
    /\ currentShape = <<>>
    /\ selectedTool = "regular"
    /\ ruler = Null
    /\ pixelRatio = Null
    /\ showRulerPrompt = FALSE
    /\ rulerLength = <<>>
    /\ rulerUnit = "ft"
    /\ hoveredRegionIndex = Null
    /\ hoverPosition = Null
    /\ seg = SegIdle
    /\ pressed = FALSE
    /\ clickAt = Null
    /\ gest = GestNone
    /\ mounted = TRUE
    /\ localStorage = Saved(NoStorage, shapes, ruler, pixelRatio, dimensions)

\* where the pointer moves once the Region set is there; handleMouseMove tests dimensions itself
SegMovePoints == {Pt(2, 2), Pt(5, 7), Pt(13, 3)}

NextSeg ==
    \/ useMemoZoneRegions
    \/ ScanStep
    \/ FillStep
    \/ FillReturnStep
    \/ SegFresh /\ \E p \in SegMovePoints : handleMouseMove(p)

SpecSeg == InitSeg /\ [][NextSeg]_vars

\* calculateZoneRegions is synchronous code: once called, each of its loops goes on
SpecSegRun ==
    /\ SpecSeg
    /\ WF_vars(useMemoZoneRegions)
    /\ WF_vars(ScanStep)
    /\ WF_vars(FillStep)
    /\ WF_vars(FillReturnStep)

----------------------------------------------------------------------------
(* End to end: the square of the specification drawn with the regular tool  *)
(* on an image of E2ESize x E2ESize pixels, the pointer moving and leaving  *)
(* the canvas between the presses and the releases.                         *)

E2ESize == 104

E2EGestures ==
    << [down |-> Pt(0, 0), up |-> Pt(100, 0)],
       [down |-> Pt(100, 0), up |-> Pt(100, 100)],
       [down |-> Pt(100, 100), up |-> Pt(0, 100)],
       [down |-> Pt(0, 100), up |-> Pt(0, 0)] >>

\* where the pointer is seen on its way from a press to a release
E2EMoves == {Pt(mx, my) : mx \in {2, 26, 50, 74, 98}, my \in {2, 26, 50, 74, 98}}

\* the gesture that comes next: one per vertex list length, none once the square is stored
E2EIndex ==
    IF shapes # <<>> THEN Len(E2EGestures) + 1
    ELSE IF currentShape = <<>> THEN 1
    ELSE Len(currentShape)

InitE2E ==
    /\ dimensions = Some([width |-> E2ESize, height |-> E2ESize])
    /\ startPoint = Null
    /\ currentPath = <<>>
    /\ shapes = <<>>
    /\ currentShape = <<>>
    /\ selectedTool = "regular"
    /\ ruler = Null
    /\ pixelRatio = Null
    /\ showRulerPrompt = FALSE
    /\ rulerLength = <<>>
    /\ rulerUnit = "ft"
    /\ hoveredRegionIndex = Null
    /\ hoverPosition = Null
    /\ seg = SegIdle
    /\ pressed = FALSE
    /\ clickAt = Null
    /\ gest = GestNone
    /\ mounted = TRUE
    /\ localStorage = Saved(NoStorage, shapes, ruler, pixelRatio, dimensions)

NextE2E ==
    \/ renderZoneRegions
    \/ /\ SegFresh
       /\ startPoint = Null
       /\ E2EIndex <= Len(E2EGestures)
       /\ handleMouseDown(E2EGestures[E2EIndex].down)
    \/ SegFresh /\ \E p \in E2EMoves : handleMouseMove(p)
    \/ SegFresh /\ handleMouseLeave
    \/ /\ SegFresh
       /\ startPoint # Null
       /\ handleMouseUp(E2EGestures[E2EIndex].up)
    \/ /\ SegFresh
       /\ clickAt # Null
       /\ handleCanvasClick(clickAt[1])

SpecE2E == InitE2E /\ [][NextE2E]_vars

----------------------------------------------------------------------------
(* End to end: the same square, then the drip tool and a polygon of         *)
(* 50 x 50 pixels inside the square, on the same image.  The pointer is     *)
(* seen on its way from a press to a release.                               *)

DripOrigins == {Pt(20, 20), Pt(25, 25), Pt(31, 40)}

\* the corner of the drip polygon where its drawing started
DripOrigin == IF currentShape = <<>> THEN startPoint[1] ELSE currentShape[1]

\* the release of the gesture under way: the next corner, the origin after the fourth
DripUp ==
    LET o == DripOrigin
        k == Len(currentShape)
    IN  IF k = 0 THEN Pt(o.x + 50, o.y)
        ELSE IF k = 2 THEN Pt(o.x + 50, o.y + 50)
        ELSE IF k = 3 THEN Pt(o.x, o.y + 50)
        ELSE o

InitDrip == InitE2E

NextDrip ==
    \/ renderZoneRegions
    \/ /\ SegFresh
       /\ startPoint = Null
       /\ shapes = <<>>
       /\ handleMouseDown(E2EGestures[E2EIndex].down)
    \/ /\ SegFresh
       /\ startPoint # Null
       /\ shapes = <<>>
       /\ handleMouseUp(E2EGestures[E2EIndex].up)
    \/ /\ SegFresh
       /\ Len(shapes) = 1
       /\ selectedTool = "regular"
       /\ setSelectedTool("drip")
    \/ /\ SegFresh
       /\ startPoint = Null
       /\ Len(shapes) = 1
       /\ selectedTool = "drip"
       /\ \E o \in DripOrigins :
            handleMouseDown(IF currentShape = <<>> THEN o ELSE currentShape[Len(currentShape)])
    \/ /\ SegFresh
       /\ startPoint # Null
       /\ Len(shapes) = 1
       /\ selectedTool = "drip"
       /\ handleMouseUp(DripUp)
    \/ SegFresh /\ startPoint # Null /\ \E p \in E2EMoves : handleMouseMove(p)
    \/ SegFresh /\ startPoint # Null /\ handleMouseLeave
    \/ /\ SegFresh
       /\ clickAt # Null
       /\ handleCanvasClick(clickAt[1])

SpecDrip == InitDrip /\ [][NextDrip]_vars

----------------------------------------------------------------------------
(* Calibrating: the ruler tool, the length prompt and image uploads, next   *)
(* to drawing and deleting, from a store restored with one triangle.       *)
(* The canvas, and so its pointer events, exists once dimensions are set;   *)
(* the prompt and its button exist while showRulerPrompt holds.             *)

CalTools == {"regular", "ruler", "delete"}
CalLengths == {<<>>, <<"5">>}
CalUnits == {"ft", "m"}
CalDims == {[width |-> CanvasW, height |-> CanvasH]}
CalReleasePoints == {PtN, PtB}
CalStores == {<<Drawn(<<PtA, PtN, PtB>>, "regular")>>}

InitCal ==
    /\ dimensions \in {Null, Some([width |-> CanvasW, height |-> CanvasH])}
    /\ startPoint = Null
    /\ currentPath = <<>>
    /\ shapes \in CalStores
    /\ currentShape = <<>>
    /\ selectedTool = "regular"
    /\ ruler = Null
    /\ pixelRatio = Null
    /\ showRulerPrompt = FALSE
    /\ rulerLength = <<>>
    /\ rulerUnit = "ft"
    /\ hoveredRegionIndex = Null
    /\ hoverPosition = Null
    /\ seg = SegIdle
    /\ pressed = FALSE
    /\ clickAt = Null
    /\ gest = GestNone
    /\ mounted = TRUE
    /\ localStorage = Saved(NoStorage, shapes, ruler, pixelRatio, dimensions)

NextCal ==
    \/ renderZoneRegions
    \/ SegFresh /\ \E d \in CalDims : handleImageUpload(d)
    \/ SegFresh /\ \E t \in CalTools : setSelectedTool(t)
    \/ SegFresh /\ dimensions # Null /\ \E p \in PressPoints : handleMouseDown(p)
    \/ SegFresh /\ dimensions # Null /\ \E p \in MovePoints : handleMouseMove(p)
    \/ SegFresh /\ dimensions # Null /\ \E p \in CalReleasePoints : WithinBounds(p) /\ handleMouseUp(p)
    \/ SegFresh /\ dimensions # Null /\ handleMouseLeave
    \/ SegFresh /\ dimensions # Null /\ \E p \in CalReleasePoints : handleCanvasClick(p)
    \/ SegFresh /\ showRulerPrompt /\ \E text \in CalLengths : setRulerLength(text)
    \/ SegFresh /\ showRulerPrompt /\ \E unit \in CalUnits : setRulerUnit(unit)
    \/ SegFresh /\ showRulerPrompt /\ handleRulerSubmit

SpecCal == InitCal /\ [][NextCal]_vars

----------------------------------------------------------------------------
(* Loading.  The first render of App runs the useState initialisers in the  *)
(* order of the source; an initialiser that throws ends the render, and     *)
(* the component is not mounted.  The effects that write localStorage run   *)
(* after a render that returned.                                            *)

\* the initialiser of an entry read with JSON.parse: absent (null or '') gives the default
useStateJSON(entry, default) ==
    IF TruthyText(entry)
    THEN LET r == JSONparse(entry[1])
         IN  [thrown |-> r.thrown, value |-> r.value]
    ELSE [thrown |-> FALSE, value |-> default]

\* the first render on the storage st: what the initialisers return, or that one threw
App(st) ==
    LET d  == useStateJSON(st.irrigationDimensions, Null)
        ss == useStateJSON(st.irrigationShapes, <<>>)
        r  == useStateJSON(st.irrigationRuler, Null)
        pr == IF TruthyText(st.irrigationPixelRatio)
              THEN Some(parseFloatSaved(st.irrigationPixelRatio[1]))
              ELSE Null
    IN  IF d.thrown \/ ss.thrown \/ r.thrown
        THEN [mounted |-> FALSE, dimensions |-> Null, shapes |-> <<>>, ruler |-> Null,
              pixelRatio |-> Null]
        ELSE [mounted |-> TRUE,
              dimensions |-> IF TruthyText(st.irrigationDimensions) THEN Some(d.value) ELSE Null,
              shapes |-> ss.value,
              ruler |-> IF TruthyText(st.irrigationRuler) THEN Some(r.value) ELSE Null,
              pixelRatio |-> pr]

\* window.location.reload(), or the user reloading the page: App is constructed again
reload ==
    LET a == App(localStorage)
    IN  /\ clickAt = Null
        /\ mounted' = a.mounted
        /\ dimensions' = a.dimensions
        /\ shapes' = a.shapes
        /\ ruler' = a.ruler
        /\ pixelRatio' = a.pixelRatio
        /\ localStorage' = IF a.mounted
                           THEN Saved(localStorage, a.shapes, a.ruler, a.pixelRatio, a.dimensions)
                           ELSE localStorage
        /\ startPoint' = Null
        /\ currentPath' = <<>>
        /\ currentShape' = <<>>
        /\ selectedTool' = "regular"
        /\ showRulerPrompt' = FALSE
        /\ rulerLength' = <<>>
        /\ rulerUnit' = "ft"
        /\ hoveredRegionIndex' = Null
        /\ hoverPosition' = Null
        /\ seg' = SegIdle
        /\ pressed' = FALSE
        /\ gest' = GestNone
        /\ UNCHANGED clickAt

\* the onClick of Clear All: the entries are removed and the page is reloaded
handleClearAll ==
    /\ clickAt = Null
    /\ mounted' = TRUE
    /\ dimensions' = Null
    /\ shapes' = <<>>
    /\ ruler' = Null
    /\ pixelRatio' = Null
    /\ localStorage' = Saved(NoStorage, <<>>, Null, Null, Null)
    /\ startPoint' = Null
    /\ currentPath' = <<>>
    /\ currentShape' = <<>>
    /\ selectedTool' = "regular"
    /\ showRulerPrompt' = FALSE
    /\ rulerLength' = <<>>
    /\ rulerUnit' = "ft"
    /\ hoveredRegionIndex' = Null
    /\ hoverPosition' = Null
    /\ seg' = SegIdle
    /\ pressed' = FALSE
    /\ gest' = GestNone
    /\ UNCHANGED clickAt

LoadTriangle == Drawn(<<PtA, PtN, PtB>>, "regular")
LoadRuler == [start |-> PtA, end |-> PtN, length |-> Num(5), unit |-> "m"]
LoadRatio == [num |-> 5, den |-> 1, d2 |-> 52]
LoadCanvas == [width |-> CanvasW, height |-> CanvasH]

\* what the browser may hold under each key when the page is opened
LoadShapes == {Null, Some(Chars(<<>>)), Some(JSONstringify(<<LoadTriangle>>)), Some(Chars(<<"[", "{">>))}
LoadRulers == {Null, Some(JSONstringify(LoadRuler)), Some(Chars(<<"{">>))}
LoadRatios == {Null, Some(toString(LoadRatio)), Some(Chars(<<"2", ".", "5">>)),
               Some(Chars(<<"a", "b", "c">>))}
LoadDimensions == {Null, Some(JSONstringify(LoadCanvas)), Some(Chars(<<"{">>))}

LoadStorages ==
    {[irrigationShapes |-> e1, irrigationRuler |-> e2,
      irrigationPixelRatio |-> e3, irrigationDimensions |-> e4] :
        e1 \in LoadShapes, e2 \in LoadRulers, e3 \in LoadRatios, e4 \in LoadDimensions}

LoadTools == {"regular", "delete"}

InitLoad ==
    \E st \in LoadStorages :
        LET a == App(st)
        IN  /\ mounted = a.mounted
            /\ dimensions = a.dimensions
            /\ shapes = a.shapes
            /\ ruler = a.ruler
            /\ pixelRatio = a.pixelRatio
            /\ localStorage = IF a.mounted
                              THEN Saved(st, a.shapes, a.ruler, a.pixelRatio, a.dimensions)
                              ELSE st
            /\ startPoint = Null
            /\ currentPath = <<>>
            /\ currentShape = <<>>
            /\ selectedTool = "regular"
            /\ showRulerPrompt = FALSE
            /\ rulerLength = <<>>
            /\ rulerUnit = "ft"
            /\ hoveredRegionIndex = Null
            /\ hoverPosition = Null
            /\ seg = SegIdle
            /\ pressed = FALSE
            /\ clickAt = Null
            /\ gest = GestNone

\* the handlers exist once App is mounted, the canvas once dimensions are set,
\* the Clear All button while the Zone Store is not empty
NextLoad ==
    \/ mounted /\ renderZoneRegions
    \/ (mounted => SegFresh) /\ reload
    \/ mounted /\ SegFresh /\ shapes # <<>> /\ handleClearAll
    \/ mounted /\ SegFresh /\ \E t \in LoadTools : setSelectedTool(t)
    \/ mounted /\ SegFresh /\ dimensions # Null /\ \E p \in PressPoints : handleMouseDown(p)
    \/ mounted /\ SegFresh /\ dimensions # Null /\ \E p \in CalReleasePoints : WithinBounds(p) /\ handleMouseUp(p)
    \/ mounted /\ SegFresh /\ dimensions # Null /\ \E p \in CalReleasePoints : handleCanvasClick(p)

SpecLoad == InitLoad /\ [][NextLoad]_vars

----------------------------------------------------------------------------
(* Rings: one polygon drawn with the regular tool from the corner (0, 0) of *)
(* an image of SegSize x SegSize pixels, through points that are at least   *)
(* SNAP_THRESHOLD away from it, in either direction of rotation.            *)

RingPress == Pt(0, 0)
RingReleases == {Pt(0, 0), Pt(14, 0), Pt(14, 14), Pt(0, 14), Pt(12, 4)}

InitRing ==
    /\ dimensions = Some([width |-> SegSize, height |-> SegSize])
    /\ startPoint = Null
    /\ currentPath = <<>>
    /\ shapes = <<>>
    /\ currentShape = <<>>
    /\ selectedTool = "regular"
    /\ ruler = Null
    /\ pixelRatio = Null
    /\ showRulerPrompt = FALSE
    /\ rulerLength = <<>>
    /\ rulerUnit = "ft"
    /\ hoveredRegionIndex = Null
    /\ hoverPosition = Null
    /\ seg = SegIdle
    /\ pressed = FALSE
    /\ clickAt = Null
    /\ gest = GestNone
    /\ mounted = TRUE
    /\ localStorage = Saved(NoStorage, shapes, ruler, pixelRatio, dimensions)

NextRing ==
    \/ renderZoneRegions
    \/ SegFresh /\ startPoint = Null /\ shapes = <<>> /\ handleMouseDown(RingPress)
    \/ SegFresh /\ startPoint # Null /\ \E p \in RingReleases : WithinBounds(p) /\ handleMouseUp(p)
    \/ SegFresh /\ clickAt # Null /\ handleCanvasClick(clickAt[1])

SpecRing == InitRing /\ [][NextRing]_vars

----------------------------------------------------------------------------
(* Ruler placements and confirmations alone: the ruler tool, a release at   *)
(* the press point or away from it, and the lengths 5 and 0.                *)

RatioLengths == {<<>>, <<"5">>, <<"0">>}
RatioReleasePoints == {PtA, PtN}

InitRatio ==
    /\ dimensions = Some([width |-> CanvasW, height |-> CanvasH])
    /\ startPoint = Null
    /\ currentPath = <<>>
    /\ shapes \in CalStores
    /\ currentShape = <<>>
    /\ selectedTool = "regular"
    /\ ruler = Null
    /\ pixelRatio = Null
    /\ showRulerPrompt = FALSE
    /\ rulerLength = <<>>
    /\ rulerUnit = "ft"
    /\ hoveredRegionIndex = Null
    /\ hoverPosition = Null
    /\ seg = SegIdle
    /\ pressed = FALSE
    /\ clickAt = Null
    /\ gest = GestNone
    /\ mounted = TRUE
    /\ localStorage = Saved(NoStorage, shapes, ruler, pixelRatio, dimensions)

NextRatio ==
    \/ renderZoneRegions
    \/ SegFresh /\ selectedTool # "ruler" /\ setSelectedTool("ruler")
    \/ SegFresh /\ selectedTool = "ruler" /\ \E p \in PressPoints : handleMouseDown(p)
    \/ SegFresh /\ selectedTool = "ruler" /\ \E p \in RatioReleasePoints : handleMouseUp(p)
    \/ SegFresh /\ \E p \in RatioReleasePoints : handleCanvasClick(p)
    \/ SegFresh /\ showRulerPrompt /\ \E text \in RatioLengths : setRulerLength(text)
    \/ SegFresh /\ showRulerPrompt /\ \E unit \in CalUnits : setRulerUnit(unit)
    \/ SegFresh /\ showRulerPrompt /\ handleRulerSubmit
    \/ SegFresh /\ reload

SpecRatio == InitRatio /\ [][NextRatio]_vars

----------------------------------------------------------------------------
(* Drawing, measuring and deleting in turn: a polygon is drawn from (0,0)    *)
(* and closed while the store is empty, a Ruler is placed from (0,0) to     *)
(* (12,0) and confirmed, the shape is deleted at (8,2); a tool is picked    *)
(* between two gestures.                                                    *)

PtC == Pt(12, 6)
PtI == Pt(8, 2)
ToolsReleasePoints == {PtB, PtC, PtI}

InitTools ==
    /\ dimensions = Some([width |-> CanvasW, height |-> CanvasH])
    /\ startPoint = Null
    /\ currentPath = <<>>
    /\ shapes = <<>>
    /\ currentShape = <<>>
    /\ selectedTool = "regular"
    /\ ruler = Null
    /\ pixelRatio = Null
    /\ showRulerPrompt = FALSE
    /\ rulerLength = <<>>
    /\ rulerUnit = "ft"
    /\ hoveredRegionIndex = Null
    /\ hoverPosition = Null
    /\ seg = SegIdle
    /\ pressed = FALSE
    /\ clickAt = Null
    /\ gest = GestNone
    /\ mounted = TRUE
    /\ localStorage = Saved(NoStorage, shapes, ruler, pixelRatio, dimensions)

NextTools ==
    \/ renderZoneRegions
    \/ SegFresh /\ startPoint = Null /\ \E t \in CalTools : setSelectedTool(t)
    \/ SegFresh /\ \E p \in PressPoints : handleMouseDown(p)
    \/ SegFresh /\ \E p \in ToolsReleasePoints :
          /\ selectedTool = "ruler" => p = PtB
          /\ selectedTool = "delete" => p = PtI
          /\ (selectedTool \in ZoneKinds /\ currentShape # <<>> /\ isNearStartPoint(p, currentShape[1]))
                => shapes = <<>>
          /\ WithinBounds(p)
          /\ handleMouseUp(p)
    \/ SegFresh /\ \E p \in ToolsReleasePoints : handleCanvasClick(p)
    \/ SegFresh /\ showRulerPrompt /\ setRulerLength(<<"5">>)
    \/ SegFresh /\ showRulerPrompt /\ handleRulerSubmit

SpecTools == InitTools /\ [][NextTools]_vars

----------------------------------------------------------------------------
(* Properties *)

Contains(shape, p) == isPointInShape(p, shape.points)
Range(f) == {f[i] : i \in DOMAIN f}
IsZoneTool == selectedTool \in ZoneKinds

\* a release at p that handleMouseUp handles with the delete tool, or the click at p with it
DeleteStep(p) ==
    /\ selectedTool = "delete"
    /\ \/ startPoint # Null /\ handleMouseUp(p)
       \/ handleCanvasClick(p)

\* a release at p that handleMouseUp handles with a zone tool while a polygon is in progress
CommitStep(p) ==
    /\ IsZoneTool
    /\ startPoint # Null
    /\ currentShape # <<>>
    /\ handleMouseUp(p)

\* C1: one deletion gesture with the delete tool (press, release and click, all at the same
\* point p) removes exactly one shape when a shape of the store contains p: every shape
\* that contains p and comes after another one that contains p is still in the store.
C1_GestureRemovesOneShape ==
    ( /\ gest.phase = "click"
      /\ gest.tool = "delete"
      /\ gest.up = gest.at
      /\ \E i \in 1..Len(gest.store) : Contains(gest.store[i], gest.at[1]) )
    => /\ Len(shapes) = Len(gest.store) - 1
       /\ \A j \in 1..Len(gest.store) :
            ( /\ Contains(gest.store[j], gest.at[1])
              /\ \E i \in 1..(j - 1) : Contains(gest.store[i], gest.at[1]) )
            => gest.store[j] \in Range(shapes)

\* C2: a delete at p removes the shape of smallest index among those that contain p, the
\* other shapes stay, unchanged and in the same order; the store is unchanged when no shape
\* contains p.
C2_DeleteRemovesFirstContaining ==
    [][ \A p \in DelPoints :
          DeleteStep(p) =>
            LET hits == {i \in 1..Len(shapes) : Contains(shapes[i], p)}
            IN  IF hits = {} THEN shapes' = shapes
                ELSE \E m \in hits :
                       /\ \A k \in hits : m <= k
                       /\ Len(shapes') = Len(shapes) - 1
                       /\ \A i \in 1..Len(shapes') :
                            shapes'[i] = shapes[IF i < m THEN i ELSE i + 1] ]_vars

\* a release deleted the middle one of three shapes: the first does not contain the point
C2_Witness ==
    /\ gest.phase = "up"
    /\ gest.tool = "delete"
    /\ Len(gest.store) = 3
    /\ ~Contains(gest.store[1], gest.up[1])
    /\ Contains(gest.store[3], gest.up[1])
    /\ shapes = <<gest.store[1], gest.store[3]>>

\* C3: a commit while a polygon is in progress closes the polygon if and only if the
\* vertex list has at least 3 vertices and the release point is within the snap threshold
\* of the first vertex; otherwise no Shape is emitted and the point is appended.
C3_CloseIffThreeAndNear ==
    [][ \A p \in ReleasePoints :
          CommitStep(p) =>
            IF Len(currentShape) >= 3 /\ isNearStartPoint(p, currentShape[1])
            THEN Len(shapes') = Len(shapes) + 1 /\ currentShape' = <<>>
            ELSE shapes' = shapes /\ currentShape' = Append(currentShape, p) ]_vars

\* C4: every Shape of the Zone Store is a closed ring of at least 4 points.
C4_ShapesAreClosedRings ==
    \A i \in 1..Len(shapes) :
        /\ Len(shapes[i].points) >= 4
        /\ shapes[i].points[1] = shapes[i].points[Len(shapes[i].points)]

\* the shoelace sum over the consecutive pairs of a ring, without wrapping
RECURSIVE RingSum(_)
RingSum(ring) ==
    IF Len(ring) < 2 THEN 0
    ELSE ring[1].x * ring[2].y - ring[2].x * ring[1].y + RingSum(Tail(ring))

Priority == [exclusion |-> 3, drip |-> 2, regular |-> 1]
HighestPriorityKind(p, ss) ==
    LET kinds == {ss[i].type : i \in {k \in 1..Len(ss) : Contains(ss[k], p)}}
    IN  IF kinds = {} THEN "none"
        ELSE CHOOSE kind \in kinds : \A other \in kinds : Priority[kind] >= Priority[other]

\* every pixel of the image of SegSize x SegSize pixels, and the border next to it
ProbePoints == {Pt(px, py) : px \in 0..SegSize, py \in 0..SegSize}

\* C6: for every point and every Zone Store the classifier returns the kind of highest
\* priority (exclusion > drip > regular) among the shapes that contain the point, none
\* when no shape contains it.
C6_ClassifierPriority ==
    seg.pc \in {"idle", "done"} =>
        \A p \in ProbePoints : getZoneTypeAtPoint(p, shapes) = HighestPriorityKind(p, shapes)

\* a store with a point in shapes of the three kinds, and one in a regular and a drip shape
C6_Witness ==
    /\ seg.pc = "done"
    /\ shapes = <<ShapeR, ShapeD, ShapeE>>
    /\ \A i \in 1..3 : Contains(shapes[i], Pt(8, 8))
    /\ getZoneTypeAtPoint(Pt(8, 8), shapes) = "exclusion"
    /\ Contains(ShapeR, Pt(4, 4)) /\ Contains(ShapeD, Pt(4, 4)) /\ ~Contains(ShapeE, Pt(4, 4))
    /\ getZoneTypeAtPoint(Pt(4, 4), shapes) = "drip"

\* the grid-aligned points within the canvas
GridPoints(dims) ==
    IF dims = Null THEN {}
    ELSE {Pt(gx, gy) : gx \in {k \in 0..(dims[1].width - 1) : k % CALCULATION_GRID_SIZE = 0},
                       gy \in {k \in 0..(dims[1].height - 1) : k % CALCULATION_GRID_SIZE = 0}}

Cells(region) == Range(region.points)

\* the places (region, position) of the Region set where the point g is stored
Places(regions, g) ==
    {pl \in UNION {{<<i, k>> : k \in 1..Len(regions[i].points)} : i \in 1..Len(regions)} :
        regions[pl[1]].points[pl[2]] = g}

\* C7: the Region set of a finished segmentation is a partition of the classified grid
\* points: every grid point of the canvas with a verdict is in exactly one Region, once;
\* every cell of a Region is a grid point of the canvas whose verdict is the Region's kind.
C7_RegionsPartitionClassifiedGrid ==
    SegFresh =>
        /\ \A g \in GridPoints(dimensions) :
             getZoneTypeAtPoint(g, shapes) # "none" => Cardinality(Places(seg.regions, g)) = 1
        /\ \A i \in 1..Len(seg.regions) :
             /\ seg.regions[i].type \in ZoneKinds
             /\ \A c \in Cells(seg.regions[i]) :
                  /\ c \in GridPoints(dimensions)
                  /\ getZoneTypeAtPoint(c, shapes) = seg.regions[i].type

\* the regular square cut by the exclusion band with the drip square inside, on a canvas
\* narrower than the shapes: five Regions, and grid points without a verdict
C7_Witness ==
    /\ SegFresh
    /\ shapes = <<ShapeR, ShapeD, ShapeE>>
    /\ dimensions = Some([width |-> SegSize - 6, height |-> SegSize - 4])
    /\ {seg.regions[i].type : i \in 1..Len(seg.regions)} = ZoneKinds
    /\ Len(seg.regions) >= 3
    /\ Contains(ShapeR, Pt(SegSize - 6, 0))

Adjacent(p, q) ==
    \/ p.x = q.x /\ Abs(p.y - q.y) = CALCULATION_GRID_SIZE
    \/ p.y = q.y /\ Abs(p.x - q.x) = CALCULATION_GRID_SIZE

\* the cells of S linked to those of R by paths of adjacent cells of S
RECURSIVE Reach(_, _)
Reach(S, R) ==
    LET more == R \cup {q \in S : \E p \in R : Adjacent(p, q)}
    IN  IF more = R THEN R ELSE Reach(S, more)

Connected(S) == S = {} \/ Reach(S, {CHOOSE p \in S : TRUE}) = S

\* C8: every Region of a finished segmentation is a maximal 4-connected set of cells of
\* one kind: its cells are linked by paths of adjacent cells inside it, and no two distinct
\* Regions of the same kind have adjacent cells.
C8_RegionsMaximalConnected ==
    SegFresh =>
        /\ \A i \in 1..Len(seg.regions) : Connected(Cells(seg.regions[i]))
        /\ \A i, j \in 1..Len(seg.regions) :
             (i # j /\ seg.regions[i].type = seg.regions[j].type) =>
                ~\E p \in Cells(seg.regions[i]), q \in Cells(seg.regions[j]) : Adjacent(p, q)

\* the drip triangle, found from its leftmost cell, is one Region that the fill had to
\* reach upwards, and the exclusion band cuts the regular triangle in two Regions
C8_Witness ==
    /\ SegFresh
    /\ shapes = <<ShapeT, ShapeC, ShapeE>>
    /\ dimensions = Some([width |-> SegSize, height |-> SegSize])
    /\ \E i, j \in 1..Len(seg.regions) :
         i # j /\ seg.regions[i].type = "regular" /\ seg.regions[j].type = "regular"
    /\ \E i \in 1..Len(seg.regions) :
         /\ seg.regions[i].type = "drip"
         /\ \E c \in Cells(seg.regions[i]) : c.y < seg.regions[i].points[1].y

\* the store is a regular polygon and a drip polygon inside it, in either order
RegularAroundDrip(r, d) ==
    /\ Len(shapes) = 2
    /\ {r, d} = {1, 2}
    /\ shapes[r].type = "regular"
    /\ shapes[d].type = "drip"
    /\ \E p \in ProbePoints : Contains(shapes[d], p)
    /\ \A p \in ProbePoints : Contains(shapes[d], p) => Contains(shapes[r], p)

CellsOfKind(regions, type) ==
    UNION {Cells(regions[i]) : i \in {k \in 1..Len(regions) : regions[k].type = type}}

RECURSIVE CellCount(_, _)
CellCount(regions, type) ==
    IF regions = <<>> THEN 0
    ELSE (IF Head(regions).type = type THEN Len(Head(regions).points) ELSE 0)
           + CellCount(Tail(regions), type)

\* C9: for a regular polygon that contains a drip polygon and no other shape, no regular
\* Region has a cell inside the drip polygon, the drip Regions have as many cells as there
\* are grid points of the canvas inside the drip polygon, and no cell is of both kinds.
C9_DripInsideRegular ==
    \A r, d \in 1..2 :
        (SegFresh /\ RegularAroundDrip(r, d)) =>
            /\ \A c \in CellsOfKind(seg.regions, "regular") : ~Contains(shapes[d], c)
            /\ CellCount(seg.regions, "drip")
                 = Cardinality({g \in GridPoints(dimensions) : Contains(shapes[d], g)})
            /\ CellsOfKind(seg.regions, "regular") \cap CellsOfKind(seg.regions, "drip") = {}

\* the drip square inside the regular square: 25 drip cells, a regular ring around them
C9_Witness ==
    /\ SegFresh
    /\ RegularAroundDrip(1, 2)
    /\ shapes = <<ShapeR, ShapeD>>
    /\ dimensions = Some([width |-> SegSize, height |-> SegSize])
    /\ CellCount(seg.regions, "drip") = 25
    /\ CellCount(seg.regions, "regular") = 24

E2ESquare == <<Pt(0, 0), Pt(100, 0), Pt(100, 100), Pt(0, 100), Pt(0, 0)>>

\* the square is stored with area 10000 and the segmentation of the store is over
SquareSegmented ==
    /\ SegFresh
    /\ Len(shapes) = 1
    /\ shapes[1].points = E2ESquare
    /\ shapes[1].type = "regular"
    /\ shapes[1].area.num = 10000 * shapes[1].area.den

\* C10 as stated: once the square (0,0),(100,0),(100,100),(0,100) is drawn its area is
\* 10000 and, the grid cell size being 10, the segmentation is one regular Region of 100
\* cells, of aggregate pixel area 10000.
C10_SquareIsOneRegionOf100Cells ==
    (SegFresh /\ shapes # <<>>) =>
        /\ SquareSegmented
        /\ CALCULATION_GRID_SIZE = 10
        /\ Len(seg.regions) = 1
        /\ seg.regions[1].type = "regular"
        /\ Len(seg.regions[1].points) = 100
        /\ calculateTotalArea("regular") = 10000

\* C10 amended: once the square is drawn its area is 10000 and, the grid cell size being
\* CALCULATION_GRID_SIZE = 2, the segmentation is one regular Region of 2500 cells, of
\* aggregate pixel area 10000.
C10_SquareIsOneRegionOf2500Cells ==
    (SegFresh /\ shapes # <<>>) =>
        /\ SquareSegmented
        /\ CALCULATION_GRID_SIZE = 2
        /\ Len(seg.regions) = 1
        /\ seg.regions[1].type = "regular"
        /\ Len(seg.regions[1].points) = 2500
        /\ calculateTotalArea("regular") = 10000

\* the square has been drawn by its four gestures and segmented
C10_Witness ==
    /\ SquareSegmented
    /\ gest.phase = "click"
    /\ gest.up = Some(Pt(0, 0))
    /\ seg.regions # <<>>


\* C11: once the regular square and then a drip polygon of 50 x 50 pixels inside it are
\* drawn, the aggregate pixel area of kind regular is 7500 and that of kind drip is 2500.
C11_SquareWithDripInside ==
    (SegFresh /\ Len(shapes) = 2) =>
        /\ shapes[1].points = E2ESquare /\ shapes[1].type = "regular"
        /\ shapes[2].type = "drip"
        /\ shapes[2].area.num = 2500 * shapes[2].area.den
        /\ calculateTotalArea("regular") = 7500
        /\ calculateTotalArea("drip") = 2500
        /\ calculateTotalArea("exclusion") = 0

\* the drip polygon drawn from the corner (25, 25), which is not on the grid, and segmented
C11_Witness ==
    /\ SegFresh
    /\ Len(shapes) = 2
    /\ shapes[2].points = <<Pt(25, 25), Pt(75, 25), Pt(75, 75), Pt(25, 75), Pt(25, 25)>>
    /\ CellCount(seg.regions, "drip") = 625
    /\ gest.phase = "click"


\* C12: the pixel area of a Region is its cell count times the square of the segmentation
\* cell size, and the pixel area of a kind is the sum of the pixel areas of the Regions of
\* that kind alone.
C12_AreaIsCellCountTimesCellArea ==
    SegFresh =>
        /\ \A i \in 1..Len(zoneRegions) :
             calculateRegionArea(zoneRegions[i].points)
                = Cardinality(Cells(zoneRegions[i])) * CALCULATION_GRID_SIZE * CALCULATION_GRID_SIZE
        /\ \A type \in ZoneKinds :
             calculateTotalArea(type)
                = CellCount(zoneRegions, type) * CALCULATION_GRID_SIZE * CALCULATION_GRID_SIZE

\* five Regions of the three kinds, two regular and two drip: 80, 60 and 56 pixels
C12_Witness ==
    /\ SegFresh
    /\ shapes = <<ShapeR, ShapeD, ShapeE>>
    /\ dimensions = Some([width |-> SegSize, height |-> SegSize])
    /\ Len(zoneRegions) = 5
    /\ calculateTotalArea("regular") = 80
    /\ calculateTotalArea("drip") = 60
    /\ calculateTotalArea("exclusion") = 56


\* the area results the component shows: the three totals and the area of the hovered Region
AreaResults ==
    {formatArea(calculateTotalArea(type)) : type \in ZoneKinds}
        \cup {formatArea(calculateRegionArea(zoneRegions[i].points)) :
                 i \in {k \in 1..Len(zoneRegions) : hoveredRegionIndex = Some(k - 1)}}

\* C13: while pixelRatio is null every area result is the uncalibrated marker, and only a
\* calibration confirmation makes a null pixelRatio a number: uploading an image, drawing,
\* deleting and placing a ruler do not.
C13_UncalibratedUntilConfirmed ==
    /\ [](pixelRatio = Null => AreaResults = {Uncalibrated})
    /\ [][(pixelRatio = Null /\ pixelRatio' # Null) =>
             /\ handleRulerSubmit
             /\ ruler # Null
             /\ parseFloat(rulerLength) # NaN]_vars

\* an uncalibrated ruler is placed, a shape is stored and one of its Regions is hovered
C13_Witness ==
    /\ pixelRatio = Null
    /\ ruler # Null
    /\ SegFresh
    /\ shapes # <<>>
    /\ dimensions # Null
    /\ hoveredRegionIndex = Some(0)
    /\ Cardinality(AreaResults) = 1
    /\ calculateTotalArea("regular") > 0


\* the number the text of the length input spells, for the texts of CalLengths
EnteredLength ==
    IF rulerLength = <<"5">> THEN [num |-> 5, den |-> 1]
    ELSE IF rulerLength = <<"2", ".", "5">> THEN [num |-> 5, den |-> 2]
    ELSE [num |-> 0, den |-> 0]

ValidLength == rulerLength \in {<<"5">>, <<"2", ".", "5">>}

\* the fractions a and b are the same number
SameNumber(a, b) == a.den # 0 /\ b.den # 0 /\ a.num * b.den = b.num * a.den

\* pr is length / distance(r.start, r.end)
IsRatioOf(pr, length, r) ==
    /\ SameNumber([num |-> pr.num, den |-> pr.den], length)
    /\ pr.d2 = (r.end.x - r.start.x) * (r.end.x - r.start.x)
                 + (r.end.y - r.start.y) * (r.end.y - r.start.y)

\* C14: a confirmation with a valid length while a Ruler is placed sets pixelRatio to
\* length / distance(start, end) and the Ruler's length and unit to the entered ones in one
\* step, the endpoints unchanged; in no state does a Ruler carry a length that pixelRatio is
\* not derived from.
C14_CalibrationIsAtomic ==
    /\ [][(handleRulerSubmit /\ ruler # Null /\ ValidLength) =>
             /\ pixelRatio' # Null
             /\ IsRatioOf(pixelRatio'[1], EnteredLength, ruler[1])
             /\ ruler' # Null
             /\ SameNumber(ruler'[1].length, EnteredLength)
             /\ ruler'[1].unit = rulerUnit
             /\ ruler'[1].start = ruler[1].start
             /\ ruler'[1].end = ruler[1].end]_vars
    /\ []((ruler # Null /\ ruler[1].length.num # 0) =>
             (pixelRatio # Null /\ IsRatioOf(pixelRatio[1], ruler[1].length, ruler[1])))

\* the ruler from (0,0) to (4,6) confirmed as 5 m: pixelRatio is 5 / sqrt(52)
C14_Witness ==
    /\ ruler = Some([start |-> PtA, end |-> PtN, length |-> [num |-> 5, den |-> 1], unit |-> "m"])
    /\ pixelRatio = Some([num |-> 5, den |-> 1, d2 |-> 52])
    /\ ~showRulerPrompt
    /\ rulerLength = <<>>


\* C15: a confirmation whose length input is empty or not a number, or that comes when no
\* Ruler is placed, changes nothing: pixelRatio, the Ruler, the Zone Store, the prompt and
\* its inputs stay as they are, so that a valid confirmation can follow.
C15_InvalidConfirmationIsNoOp ==
    [][(handleRulerSubmit /\ (ruler = Null \/ ~ValidLength)) =>
          UNCHANGED <<pixelRatio, ruler, shapes, showRulerPrompt, rulerLength, rulerUnit,
                      dimensions, currentShape, selectedTool>>]_vars

\* Set Scale was clicked on an empty input while a calibrated Ruler had been replaced: the
\* prompt is still open and the earlier pixelRatio is still there
C15_Witness ==
    /\ gest.phase = "rejected"
    /\ rulerLength = <<>>
    /\ showRulerPrompt
    /\ ruler # Null
    /\ ruler[1].length.num = 0
    /\ pixelRatio # Null


\* a release that handleMouseUp handles with the ruler tool
RulerStep(p) == handleMouseUp(p) /\ startPoint # Null /\ selectedTool = "ruler"

\* C16: a release with the ruler tool after a press makes the Ruler the segment from the
\* press point to the release point with length 0 and opens the prompt; the Ruler before it
\* is replaced in full: neither its length, nor its unit, nor the pixelRatio derived from
\* it is in effect afterwards.
C16_NewRulerReplacesCalibration ==
    [][\A p \in CalReleasePoints :
          RulerStep(p) =>
             /\ ruler' # Null
             /\ ruler'[1].start = startPoint[1]
             /\ ruler'[1].end = p
             /\ ruler'[1].length.num = 0
             /\ ruler'[1].unit = "ft"
             /\ showRulerPrompt'
             /\ pixelRatio' = Null
             /\ \A type \in ZoneKinds : formatArea(calculateTotalArea(type))' = Uncalibrated]_vars


\* pixel areas to report: a few numbers, and the totals of the Region set
SampleAreas == {0, 4, 36, 100} \cup {calculateTotalArea(type) : type \in ZoneKinds}

\* h is a * 25 / d2 to two decimals: the number of hundredths nearest to it
IsTwoDecimalsOf(h, a, d2) == 2 * Abs(h * d2 - 2500 * a) <= d2

\* C17: with a Ruler of pixel length L > 0 confirmed as 5 m, the real area computed for a
\* pixel area A is A * (5 / L)^2 = 25 A / L^2, and it is reported to the two decimals of the
\* display, in square meters.
C17_CalibrationRoundTrip ==
    (/\ ruler # Null
     /\ SameNumber(ruler[1].length, [num |-> 5, den |-> 1])
     /\ ruler[1].unit = "m"
     /\ calculatePixelDistance2(ruler[1].start, ruler[1].end) > 0)
    => /\ pixelRatio # Null
       /\ \A a \in SampleAreas :
            /\ SameNumber(realArea(a),
                          [num |-> 25 * a,
                           den |-> calculatePixelDistance2(ruler[1].start, ruler[1].end)])
            /\ formatArea(a).text = "toFixed(2)"
            /\ formatArea(a).unit = "m"
            /\ IsTwoDecimalsOf(formatArea(a).hundredths, a,
                               (ruler[1].end.x - ruler[1].start.x) * (ruler[1].end.x - ruler[1].start.x)
                                 + (ruler[1].end.y - ruler[1].start.y) * (ruler[1].end.y - ruler[1].start.y))

\* the ruler (0,0)-(12,0), L = 12, is 5 m: the triangle's pixel area of 36 is 6.25 m2
C17_Witness ==
    /\ ruler = Some([start |-> PtA, end |-> PtB, length |-> [num |-> 5, den |-> 1], unit |-> "m"])
    /\ gest.phase = "confirmed"
    /\ formatArea(36) = [text |-> "toFixed(2)", hundredths |-> 625, unit |-> "m"]
    /\ formatArea(100) = [text |-> "toFixed(2)", hundredths |-> 1736, unit |-> "m"]


\* a pointer move with no press pending, on a loaded image
HoverStep(p) == handleMouseMove(p) /\ startPoint = Null /\ dimensions # Null

\* the segmentation grid cell that contains p
CellOf(p) ==
    Pt((p.x \div CALCULATION_GRID_SIZE) * CALCULATION_GRID_SIZE,
       (p.y \div CALCULATION_GRID_SIZE) * CALCULATION_GRID_SIZE)

\* the indices, from 0, of the Regions that own the cell
OwnersOf(regions, cell) == {i - 1 : i \in {k \in 1..Len(regions) : cell \in Cells(regions[k])}}

\* C18: after a pointer move at p with no press pending the hovered Region is the Region
\* that owns the segmentation grid cell containing p, and none when no Region owns it.
C18_HoverIsOwnerOfCell ==
    [][\A p \in MovePoints :
          HoverStep(p) =>
             IF OwnersOf(zoneRegions, CellOf(p)) = {}
             THEN hoveredRegionIndex' = Null
             ELSE hoveredRegionIndex' # Null
                    /\ hoveredRegionIndex'[1] \in OwnersOf(zoneRegions, CellOf(p))]_vars


\* the Region set of the last run is not that of the current Zone Store and dimensions
Stale == seg.pc # "done" \/ seg.shapes # shapes \/ seg.dimensions # dimensions

C20_NoDimensionsNoRegions ==
    /\ [](dimensions = Null =>
            /\ calculateZoneRegions(shapes, dimensions) = <<>>
            /\ \A type \in ZoneKinds : TotalAreaOf(calculateZoneRegions(shapes, dimensions), type) = 0
            /\ (seg.pc = "done" => (zoneRegions = <<>> /\ \A type \in ZoneKinds : calculateTotalArea(type) = 0)))
    /\ [][\A p \in SegMovePoints :
             (handleMouseMove(p) /\ dimensions = Null) =>
                UNCHANGED <<hoveredRegionIndex, hoverPosition, currentPath, startPoint, shapes,
                            currentShape, dimensions, seg>>]_vars

\* a store of two shapes restored without dimensions, segmented: no Region
C20_Witness ==
    /\ dimensions = Null
    /\ shapes = <<ShapeR, ShapeD>>
    /\ seg.pc = "done"
    /\ seg.shapes = shapes
    /\ zoneRegions = <<>>
    /\ hoveredRegionIndex = Null

\* an entry holds a well-formed text of its kind
WellFormedJSON(entry) == TruthyText(entry) /\ entry[1].kind = "json"
WellFormedNumber(entry) ==
    /\ TruthyText(entry)
    /\ \/ entry[1].kind = "number"
       \/ entry[1].kind = "chars" /\ parseFloat(entry[1].chars) # NaN

\* C21: a load restores each of the four persisted entries on its own, and an entry that is
\* missing or malformed gives the default of its field (empty shape list, no ruler, null
\* pixelRatio, no dimensions) without failing the load or the other fields.
C21_LoadDefaultsEachEntry ==
    [][reload =>
        /\ mounted'
        /\ shapes' = IF WellFormedJSON(localStorage.irrigationShapes)
                     THEN localStorage.irrigationShapes[1].value ELSE <<>>
        /\ ruler' = IF WellFormedJSON(localStorage.irrigationRuler)
                    THEN Some(localStorage.irrigationRuler[1].value) ELSE Null
        /\ pixelRatio' = IF WellFormedNumber(localStorage.irrigationPixelRatio)
                         THEN Some(parseFloatSaved(localStorage.irrigationPixelRatio[1])) ELSE Null
        /\ dimensions' = IF WellFormedJSON(localStorage.irrigationDimensions)
                         THEN Some(localStorage.irrigationDimensions[1].value) ELSE Null]_vars

\* a release at p that is the first commit of a polygon: a zone tool, a pending press, no vertex yet
FirstCommitStep(p) ==
    /\ IsZoneTool
    /\ startPoint # Null
    /\ currentShape = <<>>
    /\ handleMouseUp(p)

\* C22 as stated: right after the first commit from Idle the in-progress vertex list holds
\* exactly one vertex, the committed point.
C22_FirstCommitHoldsOneVertex ==
    [][\A p \in ReleasePoints : FirstCommitStep(p) => currentShape' = <<p>>]_vars

\* C22 amended: right after the first commit from Idle the in-progress vertex list holds
\* exactly two vertices, the press point and then the release point of that gesture.
C22_FirstCommitHoldsPressAndRelease ==
    [][\A p \in ReleasePoints :
          FirstCommitStep(p) => /\ Len(currentShape') = 2
                                /\ currentShape'[1] = startPoint[1]
                                /\ currentShape'[2] = p
                                /\ shapes' = shapes]_vars

C22_Witness ==
    /\ gest.phase = "up"
    /\ gest.tool \in ZoneKinds
    /\ gest.at # gest.up
    /\ currentShape = <<gest.at[1], gest.up[1]>>

\* C23: a pointer-leave while a polygon is in progress clears only the provisional state
\* (pending press, preview path, hover) and leaves the committed vertex list and the Zone
\* Store as they were; a commit that follows (after a new press) extends that same vertex
\* list, or closes it into a Shape when it is near the first vertex.
C23_LeaveKeepsCommittedVertices ==
    /\ [][(currentShape # <<>> /\ handleMouseLeave) =>
            /\ currentShape' = currentShape
            /\ shapes' = shapes
            /\ startPoint' = Null
            /\ currentPath' = <<>>
            /\ hoveredRegionIndex' = Null
            /\ hoverPosition' = Null
            /\ UNCHANGED <<selectedTool, ruler, pixelRatio, dimensions>>]_vars
    /\ [](gest.phase = "left" => startPoint = Null /\ currentPath = <<>>)
    /\ [][\A p \in ReleasePoints :
            CommitStep(p) =>
                IF isNearStartPoint(p, currentShape[1])
                THEN /\ shapes' = Append(shapes, Drawn(currentShape, selectedTool))
                     /\ currentShape' = <<>>
                ELSE /\ currentShape' = Append(currentShape, p)
                     /\ shapes' = shapes]_vars

C23_Witness ==
    /\ gest.phase = "left"
    /\ Len(currentShape) >= 2
    /\ startPoint = Null

\* a release at p that closes the polygon in progress
ClosingStep(p) == CommitStep(p) /\ isNearStartPoint(p, currentShape[1])

\* C24: selecting another zone kind while a polygon is in progress does not change the
\* committed vertices (nor the Zone Store), and the Shape a closure emits carries the kind
\* selected at the closing commit, with the vertices committed under whatever kinds.
C24_KindIsFixedAtClosure ==
    /\ [][\A t \in DrawingTool :
            (currentShape # <<>> /\ setSelectedTool(t)) =>
                /\ currentShape' = currentShape
                /\ shapes' = shapes
                /\ selectedTool' = t]_vars
    /\ [][\A p \in ReleasePoints :
            ClosingStep(p) =>
                /\ Len(shapes') = Len(shapes) + 1
                /\ shapes'[Len(shapes')].type = selectedTool
                /\ shapes'[Len(shapes')].points = Append(currentShape, currentShape[1])
                /\ \A i \in 1..Len(shapes) : shapes'[i] = shapes[i]]_vars

C24_Witness ==
    /\ gest.phase = "kind"
    /\ selectedTool = "drip"
    /\ Len(currentShape) >= 2

\* C25: every Shape of the Zone Store has kind regular, exclusion or drip; none is tagged
\* ruler or delete, whatever tool is selected when a release is handled.
C25_ShapesHaveZoneKinds ==
    \A i \in 1..Len(shapes) : shapes[i].type \in ZoneKinds

\* a release was handled with the ruler or the delete tool while a polygon was in progress
C25_Witness ==
    /\ gest.phase = "up"
    /\ gest.tool \in {"ruler", "delete"}
    /\ Len(currentShape) >= 2
    /\ isNearStartPoint(gest.up[1], currentShape[1])

\* the vertices of a ring in the opposite order
Reverse(points) == [i \in 1..Len(points) |-> points[Len(points) + 1 - i]]

\* C26: the area calculatePixelArea returns for a closed ring with integer vertices is the
\* one it returns for the ring with its vertices in the opposite order; the area stored with
\* a Shape is that area.
C26_AreaIsTheSameReversed ==
    \A i \in 1..Len(shapes) :
        /\ shapes[i].area = calculatePixelArea(shapes[i].points)
        /\ shapes[i].area = calculatePixelArea(Reverse(shapes[i].points))

\* a ring of four vertices or more that encloses area, its vertices turning clockwise on the canvas
C26_Witness ==
    /\ Len(shapes) = 1
    /\ Len(shapes[1].points) >= 4
    /\ ShoelaceFrom(shapes[1].points, 1) > 0
    /\ ShoelaceFrom(Reverse(shapes[1].points), 1) < 0

\* C28: one run of the segmentation terminates: every flood fill empties its queue and
\* returns, and the scan of the grid reaches its end.  An iteration of the while loop adds
\* at most one cell, never visited before, to the visited set, and only such an iteration
\* puts neighbours on the queue.
C28_SegmentationTerminates ==
    /\ (seg.pc # "done") ~> (seg.pc = "done")
    /\ (seg.pc = "fill") ~> (seg.pc = "fill" /\ seg.queue = <<>>)
    /\ [][FillStep =>
            LET point == Head(seg.queue)
            IN  IF seg'.visited # seg.visited
                THEN /\ point \notin seg.visited
                     /\ seg'.visited = seg.visited \cup {point}
                     /\ Len(seg'.queue) = Len(seg.queue) - 1 + Len(directions)
                ELSE seg'.queue = Tail(seg.queue)]_vars

\* a run that filled more than one Region has returned
C28_Witness ==
    /\ seg.pc = "done"
    /\ seg.dimensions # Null
    /\ Len(seg.regions) >= 2
    /\ Cardinality(seg.visited) >= 20

\* the step of the scan at (x, y), or of the fill at the head of its queue, classifies that cell
ScanClassifies == seg.pc = "scan" /\ Pt(seg.x, seg.y) \notin seg.visited
FillClassifies ==
    /\ seg.pc = "fill"
    /\ seg.queue # <<>>
    /\ Head(seg.queue) \notin seg.visited
    /\ ~OutOfCanvas(Head(seg.queue), seg.dimensions[1])

\* C29 as stated: during one run no grid cell is passed to the classifier more than once,
\* whether it is taken from the scan or from the queue of a flood fill.
C29_EachCellClassifiedOnce ==
    [][/\ (ScanStep /\ ScanClassifies) => Pt(seg.x, seg.y) \notin seg.classified
       /\ (FillStep /\ FillClassifies) => Head(seg.queue) \notin seg.classified]_vars

\* the cells of the Regions found so far and of the Region being filled, in the order found
RECURSIVE FlattenRegions(_)
FlattenRegions(rs) == IF rs = <<>> THEN <<>> ELSE Head(rs).points \o FlattenRegions(Tail(rs))
FilledCells == FlattenRegions(seg.regions) \o seg.region

\* C29 amended: during one run the scan takes each grid cell once, in the order of the two
\* loops, and each grid cell joins the visited set, and with it a Region, at most once;
\* every cell passed to the classifier is a grid cell of the canvas.
C29_EachCellScannedAndFilledOnce ==
    /\ [][(seg.pc \in {"scan", "fill"} /\ seg'.pc = "scan") =>
             \/ seg'.x > seg.x
             \/ seg'.x = seg.x /\ seg'.y > seg.y]_vars
    /\ [][(seg.pc = "scan" /\ seg'.pc = "fill") \/ (seg.pc = "fill" /\ seg'.pc = "fill") =>
             seg'.x = seg.x /\ seg'.y = seg.y]_vars
    /\ [](/\ Len(FilledCells) = Cardinality(seg.visited)
          /\ Range(FilledCells) = seg.visited
          /\ seg.visited \subseteq seg.classified
          /\ \A c \in seg.classified :
                /\ c.x % CALCULATION_GRID_SIZE = 0
                /\ c.y % CALCULATION_GRID_SIZE = 0
                /\ ~OutOfCanvas(c, seg.dimensions[1]))

\* a run has returned after classifying cells that joined no Region
C29_Witness ==
    /\ seg.pc = "done"
    /\ Len(seg.regions) >= 1
    /\ Cardinality(seg.classified) > Cardinality(seg.visited)
    /\ Cardinality(seg.visited) >= 10

\* C30: a release with no pending press changes nothing, whatever tool is selected: no vertex
\* is committed, no Shape is emitted or deleted, no Ruler is placed and the prompt is not opened.
C30_ReleaseWithoutPressIsIgnored ==
    /\ [][\A p \in CalReleasePoints :
            (startPoint = Null /\ handleMouseUp(p)) =>
                UNCHANGED <<shapes, currentShape, ruler, pixelRatio, showRulerPrompt,
                            startPoint, currentPath, selectedTool, dimensions,
                            hoveredRegionIndex, hoverPosition, localStorage, seg>>]_vars
    /\ [](gest.phase = "ignored" => startPoint = Null)

\* a release was ignored with the ruler tool selected, a polygon in progress and no Ruler placed
C30_Witness ==
    /\ gest.phase = "ignored"
    /\ selectedTool = "ruler"
    /\ ruler = Null
    /\ Len(currentShape) >= 2

\* C31: a pointer press and a pointer move leave the confirmed state as it was: the committed
\* vertex list, the Zone Store, the Ruler, pixelRatio (and the stored entries); a press changes
\* the pending press point only, a move the preview path and the hover fields only.
C31_PressAndMoveKeepConfirmedState ==
    /\ [][\A p \in PressPoints :
            handleMouseDown(p) =>
                /\ UNCHANGED <<currentShape, shapes, ruler, pixelRatio, localStorage>>
                /\ UNCHANGED <<currentPath, hoveredRegionIndex, hoverPosition, selectedTool,
                               showRulerPrompt, dimensions>>
                /\ startPoint' = Some(p)]_vars
    /\ [][\A p \in MovePoints :
            handleMouseMove(p) =>
                /\ UNCHANGED <<currentShape, shapes, ruler, pixelRatio, localStorage>>
                /\ UNCHANGED <<startPoint, selectedTool, showRulerPrompt, dimensions>>]_vars

\* the pointer moved during a drag, with a polygon in progress and a calibration stored
C31_Witness ==
    /\ gest.phase = "down"
    /\ Len(currentPath) = 2
    /\ Len(currentShape) >= 2
    /\ shapes # <<>>
    /\ pixelRatio # Null
    /\ ruler # Null

\* the units shown with the area results that are numbers
NumericUnits == {r.unit : r \in {q \in AreaResults : q # Uncalibrated}}

\* C32: where an area is shown as a number, its unit is the one selected in the confirmation
\* that produced the current pixelRatio: a step that stores a pixelRatio shows the numbers
\* with the unit selected in the prompt, and a step that keeps pixelRatio keeps the unit of
\* the numbers; placing a new Ruler after a calibration in meters is such a step.
C32_UnitIsTheCalibrationUnit ==
    /\ [][(pixelRatio' # pixelRatio) => NumericUnits' \subseteq {rulerUnit}]_vars
    /\ [][(pixelRatio' = pixelRatio /\ NumericUnits # {}) =>
             NumericUnits' \subseteq NumericUnits]_vars

\* C33: pixelRatio is null or a positive finite number, the length of the current Ruler
\* divided by the distance between its endpoints; a Ruler of pixel length 0 or an entered
\* length of 0 stores no ratio.
C33_RatioIsOfTheCurrentRuler ==
    pixelRatio # Null =>
        /\ pixelRatio[1].num > 0
        /\ pixelRatio[1].den > 0
        /\ pixelRatio[1].d2 > 0
        /\ ruler # Null
        /\ IsRatioOf(pixelRatio[1], ruler[1].length, ruler[1])

\* the grid points of the canvas inside at least one shape of the Zone Store
CoveredGridPoints ==
    {g \in GridPoints(dimensions) : \E i \in 1..Len(shapes) : Contains(shapes[i], g)}

\* C34: the three per-kind pixel totals add up to the area of a cell times the number of
\* grid points of the canvas inside at least one shape; a grid point under several shapes
\* counts once.
C34_TotalsCountEachCoveredPointOnce ==
    SegFresh =>
        calculateTotalArea("regular") + calculateTotalArea("exclusion") + calculateTotalArea("drip")
            = (CALCULATION_GRID_SIZE * CALCULATION_GRID_SIZE) * Cardinality(CoveredGridPoints)

\* three kinds stored, each with a total, and a grid point under two shapes
C34_Witness ==
    /\ SegFresh
    /\ \A type \in ZoneKinds : calculateTotalArea(type) > 0
    /\ \E g \in CoveredGridPoints :
          Cardinality({i \in 1..Len(shapes) : Contains(shapes[i], g)}) >= 2

\* the index the hover lookup of handleMouseMove gives at the point p
HoverLookup(p) ==
    findRegionIndex(zoneRegions, (p.x \div GRID_SIZE) * GRID_SIZE, (p.y \div GRID_SIZE) * GRID_SIZE)

\* C35: a hovered region index is an index into the Region set of the current Zone Store
\* and dimensions, and it is the one the hover lookup gives at the hover position; no
\* closure, deletion or change of dimensions leaves another one.
C35_HoveredIndexNamesRegionUnderCursor ==
    (SegFresh /\ hoveredRegionIndex # Null) =>
        /\ hoveredRegionIndex[1] \in 0..(Len(zoneRegions) - 1)
        /\ hoverPosition # Null
        /\ HoverLookup(hoverPosition[1]) = hoveredRegionIndex[1]

\* C36: a reload restores the Zone Store, the Ruler, pixelRatio and the dimensions the
\* engine held just before it, whatever the events before: every change of the four,
\* a change to an empty, zero or null value too, is in the store.
C36_ReloadRestoresTheFourValues ==
    [][(mounted /\ reload) =>
          /\ mounted'
          /\ shapes' = shapes
          /\ ruler' = ruler
          /\ pixelRatio' = pixelRatio
          /\ dimensions' = dimensions]_vars

\* a move to p during a drag leaves a preview path that ends on the first vertex
PreviewSnaps(p) ==
    ENABLED (handleMouseMove(p) /\ currentPath' = <<startPoint[1], currentShape[1]>>)

\* a release at p emits a Shape
ReleaseCloses(p) ==
    ENABLED (handleMouseUp(p) /\ Len(shapes') = Len(shapes) + 1)

\* C37: during a drag with a polygon in progress, the preview path of a move to a point
\* ends on the first vertex if and only if a release at that point closes the polygon.
C37_PreviewSnapsIffReleaseCloses ==
    \A p \in MovePoints :
        (dimensions # Null /\ clickAt = Null /\ IsZoneTool /\ startPoint # Null /\ currentShape # <<>>)
            => (PreviewSnaps(p) <=> ReleaseCloses(p))

\* C38: a release with the ruler or the delete tool leaves the committed vertices as they
\* are, and the polygon is closed later by a release near its first vertex as if no such
\* release had been; a ruler placement and a confirmation leave the Zone Store as it is;
\* a deletion leaves the Ruler and pixelRatio as they are.
C38_ToolsKeepEachOthersState ==
    /\ [][\A p \in ToolsReleasePoints :
            (handleMouseUp(p) /\ selectedTool \in {"ruler", "delete"}) =>
                currentShape' = currentShape]_vars
    /\ [][\A p \in ToolsReleasePoints :
            (ClosingStep(p) /\ ruler # Null) =>
                /\ shapes' = Append(shapes, Drawn(currentShape, selectedTool))
                /\ currentShape' = <<>>]_vars
    /\ [][\A p \in ToolsReleasePoints : RulerStep(p) => shapes' = shapes]_vars
    /\ [][handleRulerSubmit => shapes' = shapes]_vars
    /\ [][\A p \in ToolsReleasePoints :
            DeleteStep(p) => (ruler' = ruler /\ pixelRatio' = pixelRatio)]_vars

\* a polygon of three vertices has just been closed with a Ruler placed and confirmed
C38_Witness ==
    /\ gest.phase = "up"
    /\ gest.tool \in ZoneKinds
    /\ ruler # Null
    /\ pixelRatio # Null
    /\ shapes # <<>>
    /\ Len(shapes[Len(shapes)].points) = 4
    /\ gest.store = <<>>

====
